---- MODULE Spec2Model ----
(***************************************************************************)
(* A model of the TelemetrixAIO client (telemetrix_aio/telemetrix_aio.py): *)
(* the command encoder, the callback registries and device counters, the   *)
(* connection handshake, the report dispatcher task and shutdown.          *)
(*                                                                         *)
(* Every public coroutine is one action.  A coroutine is modelled as an    *)
(* operator from the client state (a record with one field per attribute)  *)
(* to the client state after the call; the field exc holds the exception   *)
(* that is propagating ("" when none) and ev the transport and scheduler   *)
(* events of the call, in program order.                                   *)
(*                                                                         *)
(* private_constants.py, telemtrix_aio_serial.py and                       *)
(* telemetrix_aio_socket.py are not part of the sources at hand: the       *)
(* constants and the two transports follow the written specification       *)
(* (sections 4.1 and 6).                                                   *)
(***************************************************************************)
EXTENDS Integers, Sequences, FiniteSets, TLC

(* ------------------------------ bounds --------------------------------- *)

\* pins are 1..MaxPin
MaxPin == 4
\* candidate serial ports found by discovery are 1..n, n <= MaxPorts
MaxPorts == 2
\* report frames the device sends after the handshake
MaxFrames == 2
\* shutdown() runs (explicit or implicit) in one behaviour
MaxShutdowns == 3
\* argument bytes of a command in the round trip of the codec
MaxArgs == 255
\* the longest command bytes() accepts behind the length byte (line 1123)
MaxCommand == 255

(* ------------------- PrivateConstants (private_constants.py) ----------- *)

LOOP_COMMAND == 0
SET_PIN_MODE == 1
DIGITAL_WRITE == 2
ANALOG_WRITE == 3
MODIFY_REPORTING == 4
GET_FIRMWARE_VERSION == 5
ARE_U_THERE == 6
SERVO_ATTACH == 7
SERVO_WRITE == 8
SERVO_DETACH == 9
I2C_BEGIN == 10
I2C_READ == 11
I2C_WRITE == 12
SONAR_NEW == 13
DHT_NEW == 14
STOP_ALL_REPORTS == 15
SET_ANALOG_SCANNING_INTERVAL == 16
ENABLE_ALL_REPORTS == 17
RESET == 18

DIGITAL_REPORT == 2
ANALOG_REPORT == 3
SERVO_UNAVAILABLE == 7
I2C_TOO_FEW_BYTES_RCVD == 8
I2C_TOO_MANY_BYTES_RCVD == 9
I2C_READ_REPORT == 10
SONAR_DISTANCE == 11
DHT_REPORT == 12
DEBUG_PRINT == 99

AT_INPUT == 0
AT_OUTPUT == 1
AT_INPUT_PULLUP == 2
AT_ANALOG == 3

MAX_SONARS == 6
MAX_DHTS == 6

(* ------------------------------ values --------------------------------- *)

Pins == 1..MaxPin
\* the pins the calls are made with: the first and the last
CallPins == {1, MaxPin}
\* Python's None, for a callback, a transport handle or a task handle
None == "None"
Callbacks == {"cb1", "cb2"}
\* serial_port is None (line 134)
NoPort == 0
\* the TelemetrixAioSocket object as the port of an event (line 201)
SockPort == 100
\* arduino_instance_id, the constructor's default (line 43)
arduino_instance_id == 1
Byte == 0..255

(* ------------------------------ state ---------------------------------- *)

VARIABLES
    \* constructor parameters (__init__, lines 89-107)
    ip_address, com_port, shutdown_on_exception, close_loop_on_shutdown,
    \* transport handles and the task handle (lines 98, 134, 137)
    sock, serial_port, the_task,
    \* shutdown flag (line 140)
    shutdown_flag,
    \* callback registries, bus flags and device counters (lines 110-131)
    analog_callbacks, digital_callbacks, i2c_callback, i2c_callback2,
    i2c_1_active, i2c_2_active, loop_back_callback,
    sonar_callbacks, sonar_count, dht_callbacks, dht_count,
    \* the serial transports: port -> "unopened" | "open" | "closed", and the
    \* bytes the device has sent that the client has not read yet
    ports, inbuf,
    \* the asyncio side: cancel() was called on the_task; loop.stop() was called
    task_cancelled, loop_stopped,
    \* the connection phase: "new" | "started" | "failed"
    phase,
    \* totals over the client's life: shutdown() runs, STOP_ALL_REPORTS frames
    \* written, transports closed
    shutdown_runs, stop_writes, closes,
    \* the last step: its operation, the exception it raised to its caller
    \* ("" when none) and its events in program order
    op, exc, ev,
    \* the dispatcher task (_arduino_report_dispatcher): position, locals,
    \* the exception that ended it
    pc, packet_length, packet, task_exc,
    \* the frames the device sent; the handler invocations so far
    sent, dispatched

clientVars == <<ip_address, com_port, shutdown_on_exception, close_loop_on_shutdown,
                sock, serial_port, the_task, shutdown_flag,
                analog_callbacks, digital_callbacks, i2c_callback, i2c_callback2,
                i2c_1_active, i2c_2_active, loop_back_callback,
                sonar_callbacks, sonar_count, dht_callbacks, dht_count,
                ports, inbuf, task_cancelled, loop_stopped, phase,
                shutdown_runs, stop_writes, closes>>

taskVars == <<pc, packet_length, packet, task_exc, sent, dispatched>>

vars == <<clientVars, op, exc, ev, taskVars>>

\* The client as one record: the argument and the result of every coroutine.
Self ==
    [ip_address |-> ip_address, com_port |-> com_port,
     shutdown_on_exception |-> shutdown_on_exception,
     close_loop_on_shutdown |-> close_loop_on_shutdown,
     sock |-> sock, serial_port |-> serial_port, the_task |-> the_task,
     shutdown_flag |-> shutdown_flag,
     analog_callbacks |-> analog_callbacks, digital_callbacks |-> digital_callbacks,
     i2c_callback |-> i2c_callback, i2c_callback2 |-> i2c_callback2,
     i2c_1_active |-> i2c_1_active, i2c_2_active |-> i2c_2_active,
     loop_back_callback |-> loop_back_callback,
     sonar_callbacks |-> sonar_callbacks, sonar_count |-> sonar_count,
     dht_callbacks |-> dht_callbacks, dht_count |-> dht_count,
     ports |-> ports, inbuf |-> inbuf, task_cancelled |-> task_cancelled,
     loop_stopped |-> loop_stopped, phase |-> phase,
     shutdown_runs |-> shutdown_runs, stop_writes |-> stop_writes,
     closes |-> closes,
     exc |-> "", ev |-> <<>>]

\* The step's effect on the client: every attribute takes the value the
\* coroutine left.
Install(s) ==
    /\ ip_address' = s.ip_address
    /\ com_port' = s.com_port
    /\ shutdown_on_exception' = s.shutdown_on_exception
    /\ close_loop_on_shutdown' = s.close_loop_on_shutdown
    /\ sock' = s.sock
    /\ serial_port' = s.serial_port
    /\ the_task' = s.the_task
    /\ shutdown_flag' = s.shutdown_flag
    /\ analog_callbacks' = s.analog_callbacks
    /\ digital_callbacks' = s.digital_callbacks
    /\ i2c_callback' = s.i2c_callback
    /\ i2c_callback2' = s.i2c_callback2
    /\ i2c_1_active' = s.i2c_1_active
    /\ i2c_2_active' = s.i2c_2_active
    /\ loop_back_callback' = s.loop_back_callback
    /\ sonar_callbacks' = s.sonar_callbacks
    /\ sonar_count' = s.sonar_count
    /\ dht_callbacks' = s.dht_callbacks
    /\ dht_count' = s.dht_count
    /\ ports' = s.ports
    /\ inbuf' = s.inbuf
    /\ task_cancelled' = s.task_cancelled
    /\ loop_stopped' = s.loop_stopped
    /\ phase' = s.phase
    /\ shutdown_runs' = s.shutdown_runs
    /\ stop_writes' = s.stop_writes
    /\ closes' = s.closes
    /\ exc' = s.exc
    /\ ev' = s.ev

(* ------------------------- events and exceptions ----------------------- *)

Event(kind, port, bytes, cb) == [e |-> kind, port |-> port, bytes |-> bytes, cb |-> cb]

Emit(s, kind, port, bytes) ==
    [s EXCEPT !.ev = Append(@, Event(kind, port, bytes, None))]

\* a callback is stored in a registry, or awaited with a message
EmitCb(s, kind, cb, bytes) ==
    [s EXCEPT !.ev = Append(@, Event(kind, 0, bytes, cb))]

Raise(s, name) == [s EXCEPT !.exc = name]

\* the next statement runs unless an exception is propagating
Then(s, F(_)) == IF s.exc # "" THEN s ELSE F(s)

\* raise name ends the call unless an exception is propagating already
ThenRaise(s, name) == IF s.exc # "" THEN s ELSE Raise(s, name)

\* The RuntimeError instances the client raises, told apart by their message.
RuntimeErrors ==
    {"RuntimeError", "RuntimeError: callback required",
     "RuntimeError: i2c port not active", "RuntimeError: device limit",
     "RuntimeError: analog interval", "RuntimeError: no arduino found",
     "RuntimeError: firmware version", "RuntimeError: unknown pin state",
     "RuntimeError: servo unavailable", "RuntimeError: i2c too few bytes",
     "RuntimeError: i2c too many bytes"}

(* --------------------- the transports (spec 4.1) ----------------------- *)

\* write(bytes): the bytes are handed to the channel, or the call fails
\* because the channel is closed (the serial variant's SerialException).
TransportWrite(s, port, bytes) ==
    IF port = SockPort \/ s.ports[port] = "open"
    THEN [Emit(s, "write", port, bytes) EXCEPT
             !.stop_writes = IF bytes = <<1, STOP_ALL_REPORTS>> THEN @ + 1 ELSE @]
    ELSE Raise(s, "SerialException")

\* reset_input_buffer(): drops the buffered input of an open serial port.
TransportResetInputBuffer(s, port) ==
    IF s.ports[port] = "open"
    THEN [Emit(s, "reset_input_buffer", port, <<>>) EXCEPT !.inbuf = <<>>]
    ELSE Raise(s, "SerialException")

\* close(): releases the channel; idempotent.
TransportClose(s, port) ==
    IF s.ports[port] = "open"
    THEN [Emit(s, "close", port, <<>>) EXCEPT
             !.ports[port] = "closed", !.closes = @ + 1]
    ELSE s

(* ------------------------- the command encoder ------------------------- *)

\* bytes(command): every item must be in range(0, 256)
BytesOK(command) == \A i \in 1..Len(command) : command[i] \in Byte

\* _send_command: the length of the list is put at its head, the list is
\* turned into bytes and written to the transport ip_address selects.
SendBytes(s, send_message) ==
    IF ~s.ip_address
    THEN IF s.serial_port = NoPort THEN Raise(s, "AttributeError")
         ELSE TransportWrite(s, s.serial_port, send_message)
    ELSE IF s.sock = None THEN Raise(s, "AttributeError")
         ELSE TransportWrite(s, SockPort, send_message)

\* the length byte counts itself
FramedCountingLength(command) == <<Len(command) + 1>> \o command

\* command.insert(0, len(command))
Framed(command) == <<Len(command)>> \o command

\* the list is written without the conversion to bytes that rejects it
_send_command_unchecked(s, command) ==
    SendBytes(Emit(s, "send_command", 0, command), Framed(command))

_send_command(s, command) ==
    IF ~BytesOK(Framed(command))
    THEN Raise(Emit(s, "send_command", 0, command), "ValueError")
    ELSE SendBytes(Emit(s, "send_command", 0, command), Framed(command))

(* ------------------------------ shutdown ------------------------------- *)

\* loop.stop(), when the client owns the loop
StopLoop(s) ==
    IF s.close_loop_on_shutdown
    THEN [Emit(s, "loop.stop", 0, <<>>) EXCEPT !.loop_stopped = TRUE]
    ELSE s

\* the_task.cancel(): the_task is None until start_aio created the task
CancelTask(s) ==
    IF s.the_task = None THEN Raise(s, "AttributeError")
    ELSE [Emit(s, "cancel", 0, <<>>) EXCEPT !.task_cancelled = TRUE]

\* the body of shutdown's try block
ShutdownBody(s) ==
    IF s.serial_port # NoPort
    THEN Then(_send_command(s, <<STOP_ALL_REPORTS>>), LAMBDA a :
         Then(TransportResetInputBuffer(a, a.serial_port), LAMBDA b :
         StopLoop(TransportClose(b, b.serial_port))))
    ELSE IF s.sock # None
    THEN Then(_send_command(s, <<STOP_ALL_REPORTS>>), LAMBDA a :
         Then(CancelTask(a), LAMBDA b : StopLoop(b)))
    ELSE s

\* except (RuntimeError, SerialException): pass
ShutdownCatches(name) == name \in RuntimeErrors \cup {"SerialException"}

\* an exception that is caught takes the shutdown flag back
ShutdownExceptClearsFlag(s) ==
    IF s.exc = "" THEN Emit(s, "shutdown returns", 0, <<>>)
    ELSE IF ShutdownCatches(s.exc)
    THEN Emit([Raise(s, "") EXCEPT !.shutdown_flag = FALSE], "shutdown returns", 0, <<>>)
    ELSE Emit(s, "shutdown raises", 0, <<>>)

\* the try statement around the body
ShutdownExcept(s) ==
    IF s.exc = "" THEN Emit(s, "shutdown returns", 0, <<>>)
    ELSE IF ShutdownCatches(s.exc)
    THEN Emit(Raise(s, ""), "shutdown returns", 0, <<>>)
    ELSE Emit(s, "shutdown raises", 0, <<>>)

shutdown(s) ==
    ShutdownExcept(ShutdownBody(
        [Emit(s, "shutdown", 0, <<>>) EXCEPT
            !.shutdown_flag = TRUE, !.shutdown_runs = @ + 1]))

(* ------------------------- the error paths ----------------------------- *)

\* shutdown runs before the raise whatever shutdown_on_exception says
ShutdownAlwaysThenRaise(s, name) == ThenRaise(shutdown(s), name)

\* if self.shutdown_on_exception: await self.shutdown()
\* raise RuntimeError(...)
ShutdownThenRaise(s, name) ==
    ThenRaise(IF s.shutdown_on_exception THEN shutdown(s) ELSE s, name)

(* -------------------- registrations and commands ----------------------- *)

\* the limit test lets one registration too many through
set_pin_mode_dht_past_limit(s, pin, callback) ==
    IF callback = None
    THEN ShutdownThenRaise(s, "RuntimeError: callback required")
    ELSE IF s.dht_count <= MAX_DHTS
         THEN _send_command(
                  [EmitCb(s, "register dht", callback, <<pin>>) EXCEPT
                      !.dht_callbacks[pin] = callback, !.dht_count = @ + 1],
                  <<DHT_NEW, pin>>)
         ELSE ShutdownThenRaise(s, "RuntimeError: device limit")

\* the callback is stored before the limit is tested
set_pin_mode_dht_registers_first(s, pin, callback) ==
    IF callback = None
    THEN ShutdownThenRaise(s, "RuntimeError: callback required")
    ELSE IF s.dht_count < MAX_DHTS - 1
         THEN _send_command(
                  [EmitCb(s, "register dht", callback, <<pin>>) EXCEPT
                      !.dht_callbacks[pin] = callback, !.dht_count = @ + 1],
                  <<DHT_NEW, pin>>)
         ELSE ShutdownThenRaise(
                  [s EXCEPT !.dht_callbacks[pin] = callback],
                  "RuntimeError: device limit")

\* a pin that is registered already takes no further slot
set_pin_mode_dht_counts_pins(s, pin, callback) ==
    IF callback = None
    THEN ShutdownThenRaise(s, "RuntimeError: callback required")
    ELSE IF s.dht_count < MAX_DHTS - 1
         THEN _send_command(
                  [EmitCb(s, "register dht", callback, <<pin>>) EXCEPT
                      !.dht_callbacks[pin] = callback,
                      !.dht_count = IF s.dht_callbacks[pin] = None THEN @ + 1 ELSE @],
                  <<DHT_NEW, pin>>)
         ELSE ShutdownThenRaise(s, "RuntimeError: device limit")

set_pin_mode_dht(s, pin, callback) ==
    IF callback = None
    THEN ShutdownThenRaise(s, "RuntimeError: callback required")
    ELSE IF s.dht_count < MAX_DHTS - 1
         THEN _send_command(
                  [EmitCb(s, "register dht", callback, <<pin>>) EXCEPT
                      !.dht_callbacks[pin] = callback, !.dht_count = @ + 1],
                  <<DHT_NEW, pin>>)
         ELSE ShutdownThenRaise(s, "RuntimeError: device limit")

\* the command is written before the callback is stored
set_pin_mode_sonar_sends_first(s, trigger_pin, echo_pin, callback) ==
    IF callback = None
    THEN ShutdownThenRaise(s, "RuntimeError: callback required")
    ELSE IF s.sonar_count < MAX_SONARS - 1
         THEN Then(_send_command(s, <<SONAR_NEW, trigger_pin, echo_pin>>), LAMBDA a :
                  [EmitCb(a, "register sonar", callback, <<trigger_pin>>) EXCEPT
                      !.sonar_callbacks[trigger_pin] = callback,
                      !.sonar_count = @ + 1])
         ELSE ShutdownThenRaise(s, "RuntimeError: device limit")

set_pin_mode_sonar(s, trigger_pin, echo_pin, callback) ==
    IF callback = None
    THEN ShutdownThenRaise(s, "RuntimeError: callback required")
    ELSE IF s.sonar_count < MAX_SONARS - 1
         THEN _send_command(
                  [EmitCb(s, "register sonar", callback, <<trigger_pin>>) EXCEPT
                      !.sonar_callbacks[trigger_pin] = callback,
                      !.sonar_count = @ + 1],
                  <<SONAR_NEW, trigger_pin, echo_pin>>)
         ELSE ShutdownThenRaise(s, "RuntimeError: device limit")

\* a callback is stored only for a pin that has none
SetPinModeRegisterKeepsFirst(s, pin_number, pin_state, callback) ==
    IF pin_state \in {AT_INPUT, AT_INPUT_PULLUP}
    THEN [EmitCb(s, "register digital", callback, <<pin_number>>) EXCEPT
             !.digital_callbacks[pin_number] = IF @ = None THEN callback ELSE @]
    ELSE IF pin_state = AT_ANALOG
    THEN [EmitCb(s, "register analog", callback, <<pin_number>>) EXCEPT
             !.analog_callbacks[pin_number] = IF @ = None THEN callback ELSE @]
    ELSE s

\* the registry a pin state stores its callback in (lines 770-778)
SetPinModeRegister(s, pin_number, pin_state, callback) ==
    IF pin_state \in {AT_INPUT, AT_INPUT_PULLUP}
    THEN [EmitCb(s, "register digital", callback, <<pin_number>>) EXCEPT
             !.digital_callbacks[pin_number] = callback]
    ELSE IF pin_state = AT_ANALOG
    THEN [EmitCb(s, "register analog", callback, <<pin_number>>) EXCEPT
             !.analog_callbacks[pin_number] = callback]
    ELSE s

\* the command of a pin state (lines 780-791)
SetPinModeCommand(pin_number, pin_state, differential) ==
    IF pin_state = AT_INPUT THEN <<SET_PIN_MODE, pin_number, AT_INPUT, 1>>
    ELSE IF pin_state = AT_INPUT_PULLUP
    THEN <<SET_PIN_MODE, pin_number, AT_INPUT_PULLUP, 1>>
    ELSE IF pin_state = AT_OUTPUT THEN <<SET_PIN_MODE, pin_number, AT_OUTPUT>>
    ELSE <<SET_PIN_MODE, pin_number, AT_ANALOG,
           differential \div 256, differential % 256, 1>>

_set_pin_mode(s, pin_number, pin_state, differential, callback) ==
    IF callback = None /\ pin_state # AT_OUTPUT
    THEN ShutdownThenRaise(s, "RuntimeError: callback required")
    ELSE IF pin_state \in {AT_INPUT, AT_INPUT_PULLUP, AT_OUTPUT, AT_ANALOG}
    THEN _send_command(SetPinModeRegister(s, pin_number, pin_state, callback),
                       SetPinModeCommand(pin_number, pin_state, differential))
    ELSE ShutdownThenRaise(SetPinModeRegister(s, pin_number, pin_state, callback),
                           "RuntimeError: unknown pin state")

set_pin_mode_digital_input(s, pin_number, callback) ==
    _set_pin_mode(s, pin_number, AT_INPUT, 0, callback)

set_pin_mode_digital_input_pullup(s, pin_number, callback) ==
    IF callback = None
    THEN ShutdownThenRaise(s, "RuntimeError: callback required")
    ELSE _set_pin_mode(s, pin_number, AT_INPUT_PULLUP, 0, callback)

set_pin_mode_analog_input(s, pin_number, differential, callback) ==
    IF callback = None
    THEN ShutdownThenRaise(s, "RuntimeError: callback required")
    ELSE _set_pin_mode(s, pin_number, AT_ANALOG, differential, callback)

set_analog_scan_interval(s, interval) ==
    IF 0 <= interval /\ interval <= 255
    THEN _send_command(s, <<SET_ANALOG_SCANNING_INTERVAL, interval>>)
    ELSE ShutdownThenRaise(s, "RuntimeError: analog interval")

\* the callback is not tested
loop_back_unchecked(s, start_character, callback) ==
    _send_command(
        [EmitCb(s, "register loop_back", callback, <<>>) EXCEPT
            !.loop_back_callback = callback],
        <<LOOP_COMMAND, start_character>>)

\* start_character is given by its code point, ord(start_character)
loop_back(s, start_character, callback) ==
    IF callback = None
    THEN ShutdownThenRaise(s, "RuntimeError: callback required")
    ELSE _send_command(
             [EmitCb(s, "register loop_back", callback, <<>>) EXCEPT
                 !.loop_back_callback = callback],
             <<LOOP_COMMAND, start_character>>)

\* the value is split low byte first
analog_write_low_first(s, pin, value) ==
    _send_command(s, <<ANALOG_WRITE, pin, value % 256, value \div 256>>)

analog_write(s, pin, value) ==
    _send_command(s, <<ANALOG_WRITE, pin, value \div 256, value % 256>>)

digital_write(s, pin, value) ==
    _send_command(s, <<DIGITAL_WRITE, pin, value>>)

\* the begin command is sent again for a channel that is active
set_pin_mode_i2c_resends(s, i2c_port) ==
    IF i2c_port # 0
    THEN _send_command([s EXCEPT !.i2c_2_active = TRUE], <<I2C_BEGIN, i2c_port>>)
    ELSE _send_command([s EXCEPT !.i2c_1_active = TRUE], <<I2C_BEGIN, i2c_port>>)

\* activating one channel takes the other one back
set_pin_mode_i2c_exclusive(s, i2c_port) ==
    IF i2c_port # 0
    THEN IF ~s.i2c_2_active
         THEN _send_command([s EXCEPT !.i2c_2_active = TRUE, !.i2c_1_active = FALSE],
                            <<I2C_BEGIN, i2c_port>>)
         ELSE s
    ELSE IF ~s.i2c_1_active
         THEN _send_command([s EXCEPT !.i2c_1_active = TRUE, !.i2c_2_active = FALSE],
                            <<I2C_BEGIN, i2c_port>>)
         ELSE s

set_pin_mode_i2c(s, i2c_port) ==
    IF i2c_port # 0
    THEN IF ~s.i2c_2_active
         THEN _send_command([s EXCEPT !.i2c_2_active = TRUE], <<I2C_BEGIN, i2c_port>>)
         ELSE s
    ELSE IF ~s.i2c_1_active
         THEN _send_command([s EXCEPT !.i2c_1_active = TRUE], <<I2C_BEGIN, i2c_port>>)
         ELSE s

\* one active channel lets a write to the other through
i2c_write_either_active(s, address, args, i2c_port) ==
    IF ~s.i2c_1_active /\ ~s.i2c_2_active
    THEN ShutdownThenRaise(s, "RuntimeError: i2c port not active")
    ELSE _send_command(s, <<I2C_WRITE, Len(args), address, i2c_port>> \o args)

i2c_write(s, address, args, i2c_port) ==
    IF i2c_port = 0 /\ ~s.i2c_1_active
    THEN ShutdownThenRaise(s, "RuntimeError: i2c port not active")
    ELSE IF i2c_port # 0 /\ ~s.i2c_2_active
    THEN ShutdownThenRaise(s, "RuntimeError: i2c port not active")
    ELSE _send_command(s, <<I2C_WRITE, Len(args), address, i2c_port>> \o args)

\* the slot of a channel keeps the callback of the first read
I2cStoreCallbackKeepsFirst(s, callback, i2c_port) ==
    IF i2c_port = 0
    THEN [EmitCb(s, "register i2c", callback, <<i2c_port>>) EXCEPT
             !.i2c_callback = IF @ = None THEN callback ELSE @]
    ELSE [EmitCb(s, "register i2c", callback, <<i2c_port>>) EXCEPT
             !.i2c_callback2 = IF @ = None THEN callback ELSE @]

\* lines 472-475: the callback goes to the slot of the channel
I2cStoreCallback(s, callback, i2c_port) ==
    IF i2c_port = 0
    THEN [EmitCb(s, "register i2c", callback, <<i2c_port>>) EXCEPT
             !.i2c_callback = callback]
    ELSE [EmitCb(s, "register i2c", callback, <<i2c_port>>) EXCEPT
             !.i2c_callback2 = callback]

\* lines 477-489: register None becomes 0; stop_transmission is True (1) or
\* False (0)
I2cReadCommand(address, register, number_of_bytes, stop_transmission, i2c_port) ==
    <<I2C_READ, address, register, number_of_bytes,
      IF stop_transmission THEN 1 ELSE 0, i2c_port>>

\* the callback is stored before the channel is tested
_i2c_read_request_stores_first(s, address, register, number_of_bytes, stop_transmission, callback, i2c_port) ==
    IF i2c_port = 0 /\ ~s.i2c_1_active
    THEN ShutdownThenRaise(I2cStoreCallback(s, callback, i2c_port),
                           "RuntimeError: i2c port not active")
    ELSE IF i2c_port # 0 /\ ~s.i2c_2_active
    THEN ShutdownThenRaise(I2cStoreCallback(s, callback, i2c_port),
                           "RuntimeError: i2c port not active")
    ELSE IF callback = None
    THEN ShutdownThenRaise(s, "RuntimeError: callback required")
    ELSE _send_command(I2cStoreCallback(s, callback, i2c_port),
                       I2cReadCommand(address, register, number_of_bytes,
                                      stop_transmission, i2c_port))

_i2c_read_request(s, address, register, number_of_bytes, stop_transmission, callback, i2c_port) ==
    IF i2c_port = 0 /\ ~s.i2c_1_active
    THEN ShutdownThenRaise(s, "RuntimeError: i2c port not active")
    ELSE IF i2c_port # 0 /\ ~s.i2c_2_active
    THEN ShutdownThenRaise(s, "RuntimeError: i2c port not active")
    ELSE IF callback = None
    THEN ShutdownThenRaise(s, "RuntimeError: callback required")
    ELSE _send_command(I2cStoreCallback(s, callback, i2c_port),
                       I2cReadCommand(address, register, number_of_bytes,
                                      stop_transmission, i2c_port))

i2c_read(s, address, register, number_of_bytes, callback, i2c_port) ==
    IF callback = None
    THEN ShutdownThenRaise(s, "RuntimeError: callback required")
    ELSE _i2c_read_request(s, address, register, number_of_bytes, TRUE,
                           callback, i2c_port)

i2c_read_restart_transmission(s, address, register, number_of_bytes, callback, i2c_port) ==
    IF callback = None
    THEN ShutdownThenRaise(s, "RuntimeError: callback required")
    ELSE _i2c_read_request(s, address, register, number_of_bytes, FALSE,
                           callback, i2c_port)

(* ------------------------- report handlers ----------------------------- *)

\* await callback(message)
Await(s, callback, message) == EmitCb(s, "callback", callback, message)

\* registry[key]: the key is missing (KeyError) or maps to a callback
HasKey(registry, key) == key \in DOMAIN registry /\ registry[key] # None

\* the callback is awaited without the test for its presence
_report_loop_data_unguarded(s, data) ==
    IF s.loop_back_callback # None THEN Await(s, s.loop_back_callback, data)
    ELSE Raise(s, "TypeError")

_report_loop_data(s, data) ==
    IF s.loop_back_callback # None THEN Await(s, s.loop_back_callback, data)
    ELSE s

_report_debug_data(s, data) ==
    IF Len(data) < 3 THEN Raise(s, "IndexError") ELSE s

\* a report for a pin without a callback is dropped
_digital_message_drops(s, data) ==
    IF Len(data) < 2 THEN Raise(s, "IndexError")
    ELSE IF ~HasKey(s.digital_callbacks, data[1]) THEN s
    ELSE Await(s, s.digital_callbacks[data[1]], <<DIGITAL_REPORT, data[1], data[2]>>)

_digital_message(s, data) ==
    IF Len(data) < 2 THEN Raise(s, "IndexError")
    ELSE IF ~HasKey(s.digital_callbacks, data[1]) THEN Raise(s, "KeyError")
    ELSE Await(s, s.digital_callbacks[data[1]], <<DIGITAL_REPORT, data[1], data[2]>>)

\* the two value bytes are taken low byte first
_analog_message_low_first(s, data) ==
    IF Len(data) < 3 THEN Raise(s, "IndexError")
    ELSE IF ~HasKey(s.analog_callbacks, data[1]) THEN Raise(s, "KeyError")
    ELSE Await(s, s.analog_callbacks[data[1]],
               <<AT_ANALOG, data[1], data[3] * 256 + data[2]>>)

_analog_message(s, data) ==
    IF Len(data) < 3 THEN Raise(s, "IndexError")
    ELSE IF ~HasKey(s.analog_callbacks, data[1]) THEN Raise(s, "KeyError")
    ELSE Await(s, s.analog_callbacks[data[1]],
               <<AT_ANALOG, data[1], data[2] * 256 + data[3]>>)

\* shutdown runs whatever shutdown_on_exception says
_servo_unavailable_shuts_down(s, report) ==
    ThenRaise(shutdown(s), IF Len(report) < 1 THEN "IndexError"
                           ELSE "RuntimeError: servo unavailable")

_servo_unavailable(s, report) ==
    ShutdownThenRaise(s, IF Len(report) < 1 THEN "IndexError"
                         ELSE "RuntimeError: servo unavailable")

_i2c_too_few(s, data) ==
    ShutdownThenRaise(s, IF Len(data) < 2 THEN "IndexError"
                         ELSE "RuntimeError: i2c too few bytes")

_i2c_too_many(s, data) ==
    ShutdownThenRaise(s, IF Len(data) < 2 THEN "IndexError"
                         ELSE "RuntimeError: i2c too many bytes")

_sonar_distance_report(s, report) ==
    IF Len(report) < 1 THEN Raise(s, "IndexError")
    ELSE IF ~HasKey(s.sonar_callbacks, report[1]) THEN Raise(s, "KeyError")
    ELSE IF Len(report) < 3 THEN Raise(s, "IndexError")
    ELSE Await(s, s.sonar_callbacks[report[1]],
               <<SONAR_DISTANCE, report[1], report[2] * 256 + report[3]>>)

\* cb_list, before the time stamp is appended
I2cReadList(data) == <<I2C_READ_REPORT, data[1], data[2]>> \o SubSeq(data, 3, Len(data))

\* the channel is taken from the second byte of the payload
I2cReadCallbackSecondByte(s, data) ==
    IF I2cReadList(data)[3] # 0 THEN s.i2c_callback2 ELSE s.i2c_callback

\* if cb_list[1]: i2c_callback2 else: i2c_callback
I2cReadCallback(s, data) ==
    IF I2cReadList(data)[2] # 0 THEN s.i2c_callback2 ELSE s.i2c_callback

_i2c_read_report(s, data) ==
    IF Len(data) < 2 THEN Raise(s, "IndexError")
    ELSE IF I2cReadCallback(s, data) = None THEN Raise(s, "TypeError")
    ELSE Await(s, I2cReadCallback(s, data), I2cReadList(data))

\* struct.unpack('<f', b): the 32-bit pattern of the float, least significant
\* byte first; a float is represented by its IEEE-754 bit pattern
UnpackFloatLE(b) == b[1] + 256 * b[2] + 65536 * b[3] + 16777216 * b[4]

_dht_report(s, data) ==
    IF Len(data) < 1 THEN Raise(s, "IndexError")
    ELSE IF data[1] # 0
    THEN IF Len(data) < 2 THEN Raise(s, "IndexError")
         ELSE IF ~HasKey(s.dht_callbacks, data[2]) THEN Raise(s, "KeyError")
         ELSE IF Len(data) < 3 THEN Raise(s, "IndexError")
         ELSE Await(s, s.dht_callbacks[data[2]],
                    <<DHT_REPORT, data[1], data[2], data[3]>>)
    ELSE IF Len(SubSeq(data, 3, 6)) # 4 \/ Len(SubSeq(data, 7, Len(data))) # 4
    THEN Raise(s, "struct.error")
    ELSE IF ~HasKey(s.dht_callbacks, data[2]) THEN Raise(s, "KeyError")
    ELSE Await(s, s.dht_callbacks[data[2]],
               <<DHT_REPORT, data[1], data[2],
                 UnpackFloatLE(SubSeq(data, 3, 6)),
                 UnpackFloatLE(SubSeq(data, 7, 10))>>)

\* the keys of report_dispatch (lines 145-154)
ReportTypes ==
    {LOOP_COMMAND, DEBUG_PRINT, DIGITAL_REPORT, ANALOG_REPORT, SERVO_UNAVAILABLE,
     I2C_READ_REPORT, I2C_TOO_FEW_BYTES_RCVD, I2C_TOO_MANY_BYTES_RCVD,
     SONAR_DISTANCE, DHT_REPORT}

\* a report type without a handler is skipped
report_dispatch_skips_unknown(s, report, data) ==
    CASE report = LOOP_COMMAND -> _report_loop_data(s, data)
      [] report = DEBUG_PRINT -> _report_debug_data(s, data)
      [] report = DIGITAL_REPORT -> _digital_message(s, data)
      [] report = ANALOG_REPORT -> _analog_message(s, data)
      [] report = SERVO_UNAVAILABLE -> _servo_unavailable(s, data)
      [] report = I2C_READ_REPORT -> _i2c_read_report(s, data)
      [] report = I2C_TOO_FEW_BYTES_RCVD -> _i2c_too_few(s, data)
      [] report = I2C_TOO_MANY_BYTES_RCVD -> _i2c_too_many(s, data)
      [] report = SONAR_DISTANCE -> _sonar_distance_report(s, data)
      [] report = DHT_REPORT -> _dht_report(s, data)
      [] OTHER -> s

\* await self.report_dispatch[report](packet[1:])
report_dispatch(s, report, data) ==
    CASE report = LOOP_COMMAND -> _report_loop_data(s, data)
      [] report = DEBUG_PRINT -> _report_debug_data(s, data)
      [] report = DIGITAL_REPORT -> _digital_message(s, data)
      [] report = ANALOG_REPORT -> _analog_message(s, data)
      [] report = SERVO_UNAVAILABLE -> _servo_unavailable(s, data)
      [] report = I2C_READ_REPORT -> _i2c_read_report(s, data)
      [] report = I2C_TOO_FEW_BYTES_RCVD -> _i2c_too_few(s, data)
      [] report = I2C_TOO_MANY_BYTES_RCVD -> _i2c_too_many(s, data)
      [] report = SONAR_DISTANCE -> _sonar_distance_report(s, data)
      [] report = DHT_REPORT -> _dht_report(s, data)
      [] OTHER -> Raise(s, "KeyError")

(* ----------------------------- handshake ------------------------------ *)

\* TelemetrixAioSerial(port, 115200, ...): the port is opened
OpenSerial(s, port) ==
    [Emit(s, "open", port, <<>>) EXCEPT !.ports[port] = "open", !.serial_port = port]

\* await self.serial_port.read(n) / await self.sock.read(n) during the
\* handshake: the reply the device gave, empty when it gave none
ReadReply(s, port, reply) == Emit(s, "read", port, reply)

\* lines 256-273: every candidate port is opened and its input cleared
RECURSIVE OpenCandidates(_, _, _)
OpenCandidates(s, port, n) ==
    IF port > n \/ s.exc # "" THEN s
    ELSE OpenCandidates(
             TransportResetInputBuffer(OpenSerial(s, port), port), port + 1, n)

\* every candidate is probed and the last one that matches is taken
RECURSIVE ProbeCandidatesAll(_, _, _, _)
ProbeCandidatesAll(s, port, n, replies) ==
    IF port > n \/ s.exc # "" THEN s
    ELSE Then(_send_command([s EXCEPT !.serial_port = port], <<ARE_U_THERE>>),
              LAMBDA a :
                  ProbeCandidatesAll(
                      IF replies[port] # <<>> /\ replies[port][3] = arduino_instance_id
                      THEN [ReadReply(a, port, replies[port]) EXCEPT !.com_port = port]
                      ELSE ReadReply(a, port, replies[port]),
                      port + 1, n, replies))

\* lines 283-299: the candidates are probed in order
RECURSIVE ProbeCandidates(_, _, _, _)
ProbeCandidates(s, port, n, replies) ==
    IF port > n \/ s.exc # "" THEN s
    ELSE Then(_send_command([s EXCEPT !.serial_port = port], <<ARE_U_THERE>>),
              LAMBDA a :
                  IF replies[port] # <<>> /\ replies[port][3] = arduino_instance_id
                  THEN [ReadReply(a, port, replies[port]) EXCEPT !.com_port = port]
                  ELSE ProbeCandidates(ReadReply(a, port, replies[port]),
                                       port + 1, n, replies))

_find_arduino(s, n, replies) ==
    ProbeCandidates(OpenCandidates(s, 1, n), 1, n, replies)

_manual_open(s, replies) ==
    Then(_send_command(OpenSerial(s, s.com_port), <<ARE_U_THERE>>),
         LAMBDA a : ReadReply(a, a.serial_port, replies[a.com_port]))

\* returns the client and leaves the reply in the last "read" event
_get_firmware_version(s, firmware) ==
    Then(_send_command(s, <<GET_FIRMWARE_VERSION>>), LAMBDA a :
        ReadReply(a, IF a.ip_address THEN SockPort ELSE a.serial_port, firmware))

\* the task is created only after the reset command is written
StartAioVersionResetFirst(s, firmware) ==
    Then(_get_firmware_version(s, firmware), LAMBDA a :
        IF firmware = <<>>
        THEN ShutdownThenRaise(a, "RuntimeError: firmware version")
        ELSE Then(_send_command(a, <<ENABLE_ALL_REPORTS>>), LAMBDA b :
             Then(_send_command(b, <<RESET>>), LAMBDA c :
                 [Emit(c, "create_task", 0, <<>>) EXCEPT !.the_task = "task"])))

\* lines 207-231, after the transport is chosen
StartAioVersion(s, firmware) ==
    Then(_get_firmware_version(s, firmware), LAMBDA a :
        IF firmware = <<>>
        THEN ShutdownThenRaise(a, "RuntimeError: firmware version")
        ELSE Then(_send_command(a, <<ENABLE_ALL_REPORTS>>), LAMBDA b :
                 _send_command(
                     [Emit(b, "create_task", 0, <<>>) EXCEPT !.the_task = "task"],
                     <<RESET>>)))

\* n candidate ports answer the identity probe with replies and the chosen
\* device answers the version query with firmware
start_aio(s, n, replies, firmware) ==
    IF ~s.ip_address
    THEN Then(IF s.com_port = NoPort THEN _find_arduino(s, n, replies)
              ELSE _manual_open(s, replies),
              LAMBDA a :
                  IF a.com_port # NoPort THEN StartAioVersion(a, firmware)
                  ELSE ShutdownThenRaise(a, "RuntimeError: no arduino found"))
    ELSE StartAioVersion(
             [Emit(s, "connect", SockPort, <<>>) EXCEPT !.sock = "socket"], firmware)

(* ------------------------------ actions -------------------------------- *)

\* the operation of a step and its arguments
Op(name, pin, callback, value) ==
    [name |-> name, pin |-> pin, callback |-> callback, value |-> value]

\* a call of a public coroutine that leaves the client as s
Call(o, s) ==
    /\ s.shutdown_runs <= MaxShutdowns
    /\ Install(s)
    /\ op' = o
    /\ UNCHANGED taskVars

\* what a device answers to the identity probe and to the version query
IdReplies == {<<>>, <<2, ARE_U_THERE, arduino_instance_id>>,
              <<2, ARE_U_THERE, arduino_instance_id + 1>>}
FirmwareReplies == {<<>>, <<3, GET_FIRMWARE_VERSION, 1, 0>>}

Init ==
    /\ ip_address \in BOOLEAN
    /\ com_port \in IF ip_address THEN {NoPort} ELSE {NoPort, 1}
    /\ shutdown_on_exception \in BOOLEAN
    /\ close_loop_on_shutdown \in BOOLEAN
    /\ sock = None
    /\ serial_port = NoPort
    /\ the_task = None
    /\ shutdown_flag = FALSE
    /\ analog_callbacks = [p \in Pins |-> None]
    /\ digital_callbacks = [p \in Pins |-> None]
    /\ i2c_callback = None
    /\ i2c_callback2 = None
    /\ i2c_1_active = FALSE
    /\ i2c_2_active = FALSE
    /\ loop_back_callback = None
    /\ sonar_callbacks = [p \in Pins |-> None]
    /\ sonar_count = 0
    /\ dht_callbacks = [p \in Pins |-> None]
    /\ dht_count = 0
    /\ ports = [p \in 1..MaxPorts |-> "unopened"]
    /\ inbuf = <<>>
    /\ task_cancelled = FALSE
    /\ loop_stopped = FALSE
    /\ phase = "new"
    /\ shutdown_runs = 0
    /\ stop_writes = 0
    /\ closes = 0
    /\ op = Op("__init__", 0, None, 0)
    /\ exc = ""
    /\ ev = <<>>
    /\ pc = "none"
    /\ packet_length = 0
    /\ packet = <<>>
    /\ task_exc = ""
    /\ sent = <<>>
    /\ dispatched = <<>>

\* start_aio left the client as s; the task it created is ready to run
Started(s) ==
    /\ s.shutdown_runs <= MaxShutdowns
    /\ Install([s EXCEPT !.phase = IF s.exc = "" THEN "started" ELSE "failed"])
    /\ pc' = IF s.the_task # None THEN "top" ELSE pc
    /\ op' = Op("start_aio", 0, None, 0)
    /\ UNCHANGED <<packet_length, packet, task_exc, sent, dispatched>>

StartAio ==
    /\ phase = "new"
    /\ \E n \in 0..MaxPorts, replies \in [1..MaxPorts -> IdReplies],
          firmware \in FirmwareReplies :
          \* the socket path and the com_port path do not enumerate ports
          /\ (ip_address \/ com_port # NoPort) => n = 0
          /\ ip_address => replies = [p \in 1..MaxPorts |-> <<>>]
          /\ Started(start_aio(Self, n, replies, firmware))

Shutdown == Call(Op("shutdown", 0, None, 0), shutdown(Self))

SetPinModeDht ==
    /\ phase = "started"
    /\ \E pin \in CallPins, callback \in {None, "cb1"} :
          Call(Op("set_pin_mode_dht", pin, callback, 0),
               set_pin_mode_dht(Self, pin, callback))

SetPinModeSonar ==
    /\ phase = "started"
    /\ \E trigger_pin \in CallPins, callback \in {None, "cb1"} :
          Call(Op("set_pin_mode_sonar", trigger_pin, callback, 0),
               set_pin_mode_sonar(Self, trigger_pin, trigger_pin + MaxPin, callback))

SetPinModeDigitalInput ==
    /\ phase = "started"
    /\ \E pin \in CallPins, callback \in {None, "cb1"} :
          Call(Op("set_pin_mode_digital_input", pin, callback, 0),
               set_pin_mode_digital_input(Self, pin, callback))

(* ------------------------- the dispatcher task ------------------------- *)

\* a step of the task or of the device: no caller, no exception to a caller
Quiet(name) ==
    /\ op' = Op(name, 0, None, 0)
    /\ exc' = ""
    /\ ev' = <<>>

\* the transport the dispatcher reads from is open
ReadTransportOpen ==
    IF ~ip_address THEN serial_port # NoPort /\ ports[serial_port] = "open"
    ELSE sock # None

\* the report frames the device sends: every one well formed
DeviceFrames ==
    {<<3, DIGITAL_REPORT, 1, 1>>, <<2, LOOP_COMMAND, 65>>,
     <<3, I2C_TOO_FEW_BYTES_RCVD, 0, 8>>}

\* the device puts one of the frames on the wire
DeviceSends(frames) ==
    /\ phase = "started"
    /\ ReadTransportOpen
    /\ Len(sent) < MaxFrames
    /\ \E frame \in frames :
          /\ inbuf' = inbuf \o frame
          /\ sent' = Append(sent, frame)
    /\ Quiet("device_send")
    /\ UNCHANGED <<ip_address, com_port, shutdown_on_exception,
                   close_loop_on_shutdown, sock, serial_port, the_task,
                   shutdown_flag, analog_callbacks, digital_callbacks,
                   i2c_callback, i2c_callback2, i2c_1_active, i2c_2_active,
                   loop_back_callback, sonar_callbacks, sonar_count,
                   dht_callbacks, dht_count, ports, task_cancelled, loop_stopped,
                   phase, shutdown_runs, stop_writes, closes,
                   pc, packet_length, packet, task_exc, dispatched>>

DeviceSend == DeviceSends(DeviceFrames)

\* analog reports for the two pins the calls are made with
AnalogFrames ==
    {<<4, ANALOG_REPORT, 1, 1, 2>>, <<4, ANALOG_REPORT, MaxPin, 255, 254>>}

AnalogSend == DeviceSends(AnalogFrames)

\* read reports of 2 bytes from register 0 of the device at address 8, one
\* with the channel flag 0 and one with the channel flag 1
I2cReadFrames ==
    {<<7, I2C_READ_REPORT, 0, 2, 8, 0, 5, 6>>, <<7, I2C_READ_REPORT, 1, 2, 8, 0, 5, 6>>}

I2cReadSend == DeviceSends(I2cReadFrames)

\* the bytes of the floats 55.5 (0x425E0000) and 21.0 (0x41A80000), least
\* significant byte first
Humidity == <<0, 0, 94, 66>>
Temperature == <<0, 0, 168, 65>>

\* DHT reports: the payload 3, 4, humidity, temperature, and the payload
\* with the sub-type 0 (data) before the pin
DhtFrames ==
    {<<11, DHT_REPORT, 3, 4>> \o Humidity \o Temperature,
     <<11, DHT_REPORT, 0, 4>> \o Humidity \o Temperature}

DhtSend == DeviceSends(DhtFrames)

\* the attributes no dispatcher step other than a dispatch changes
clientFixed == <<ip_address, com_port, shutdown_on_exception,
                 close_loop_on_shutdown, sock, serial_port, the_task,
                 shutdown_flag, analog_callbacks, digital_callbacks,
                 i2c_callback, i2c_callback2, i2c_1_active, i2c_2_active,
                 loop_back_callback, sonar_callbacks, sonar_count,
                 dht_callbacks, dht_count, ports, task_cancelled, loop_stopped,
                 phase, shutdown_runs, stop_writes, closes>>

\* the flag is not looked at
AfterFlagTestIgnored(flag) == "read_length"

\* lines 914-916: while True: if self.shutdown_flag: break
AfterFlagTest(flag) == IF flag THEN "stopped" ELSE "read_length"

\* lines 914-922: the flag is tested, then the task waits for the length byte
DispatcherIterate ==
    /\ pc = "top"
    /\ pc' = AfterFlagTest(shutdown_flag)
    /\ Quiet("dispatcher_iterate")
    /\ UNCHANGED <<clientFixed, inbuf, packet_length, packet, task_exc, sent,
                   dispatched>>

\* the places where the task is suspended in an await
Suspended == {"read_length", "read_packet", "callback", "sleep"}

\* cancel() was called: CancelledError is thrown into the task at its await
DispatcherCancelled ==
    /\ pc \in Suspended
    /\ task_cancelled
    /\ pc' = "stopped"
    /\ task_exc' = "CancelledError"
    /\ Quiet("dispatcher_cancelled")
    /\ UNCHANGED <<clientFixed, inbuf, packet_length, packet, sent, dispatched>>

\* every failure of the read of the length byte sends the task back to the
\* top of the loop
AfterReadFailureContinues(error) == "top"

\* lines 917-925: the read of the length byte is in a try statement whose
\* except clause catches TypeError and continues; any other error leaves
\* the coroutine
AfterReadFailure(error) == IF error = "TypeError" THEN "top" ELSE "stopped"

\* a read on a closed serial port fails with the transport's error: at the
\* length byte the except clause decides, at the packet the error ends the task
DispatcherReadFails ==
    /\ pc \in {"read_length", "read_packet"}
    /\ ~ReadTransportOpen
    /\ pc' = IF pc = "read_length" THEN AfterReadFailure("SerialException")
             ELSE "stopped"
    /\ task_exc' = IF pc' = "stopped" THEN "SerialException" ELSE task_exc
    /\ Quiet("dispatcher_read_fails")
    /\ UNCHANGED <<clientFixed, inbuf, packet_length, packet, sent, dispatched>>

\* lines 918-922: packet_length = await read()
DispatcherReadLength ==
    /\ pc = "read_length"
    /\ ReadTransportOpen
    /\ Len(inbuf) >= 1
    /\ packet_length' = inbuf[1]
    /\ inbuf' = Tail(inbuf)
    /\ pc' = "read_packet"
    /\ Quiet("dispatcher_read_length")
    /\ UNCHANGED <<clientFixed, packet, task_exc, sent, dispatched>>

\* the read of the packet takes the length to include the length byte
ReadCountShort(n) == n - 1

\* the bytes a read of n bytes takes from the input
ReadCount(n) == n

\* lines 928-931: packet = await read(packet_length)
DispatcherReadPacket ==
    /\ pc = "read_packet"
    /\ ReadTransportOpen
    /\ Len(inbuf) >= ReadCount(packet_length)
    /\ packet' = SubSeq(inbuf, 1, ReadCount(packet_length))
    /\ inbuf' = SubSeq(inbuf, ReadCount(packet_length) + 1, Len(inbuf))
    /\ pc' = "dispatch"
    /\ Quiet("dispatcher_read_packet")
    /\ UNCHANGED <<clientFixed, packet_length, task_exc, sent, dispatched>>

\* a callback was awaited in the events
AwaitsCallback(events) == \E i \in 1..Len(events) : events[i].e = "callback"

\* lines 933-937: report = packet[0]; the handler is looked up and awaited
\* the handler left the client as s: an exception ends the task, a callback
\* is awaited, or the task goes to sleep
Dispatched(s) ==
    /\ s.shutdown_runs <= MaxShutdowns
    /\ Install([s EXCEPT !.exc = ""])
    /\ task_exc' = s.exc
    /\ pc' = IF s.exc # "" THEN "stopped"
             ELSE IF AwaitsCallback(s.ev) THEN "callback" ELSE "sleep"
    /\ op' = Op("dispatcher_dispatch", 0, None, 0)
    /\ UNCHANGED <<packet_length, packet, sent>>

DispatcherDispatch ==
    /\ pc = "dispatch"
    /\ Dispatched(IF packet = <<>> THEN Raise(Self, "IndexError")
                  ELSE report_dispatch(Self, packet[1], Tail(packet)))
    /\ dispatched' =
           IF packet = <<>> THEN dispatched
           ELSE Append(dispatched,
                       [report |-> packet[1], data |-> Tail(packet),
                        handler |-> packet[1] \in ReportTypes])

\* the callback the handler awaits returns
DispatcherCallbackReturns ==
    /\ pc = "callback"
    /\ pc' = "sleep"
    /\ Quiet("dispatcher_callback_returns")
    /\ UNCHANGED <<clientFixed, inbuf, packet_length, packet, task_exc, sent,
                   dispatched>>

\* line 938: await asyncio.sleep(self.sleep_tune)
DispatcherSleepEnds ==
    /\ pc = "sleep"
    /\ pc' = "top"
    /\ Quiet("dispatcher_sleep_ends")
    /\ UNCHANGED <<clientFixed, inbuf, packet_length, packet, task_exc, sent,
                   dispatched>>

Dispatcher ==
    \/ DispatcherIterate
    \/ DispatcherCancelled
    \/ DispatcherReadFails
    \/ DispatcherReadLength
    \/ DispatcherReadPacket
    \/ DispatcherDispatch
    \/ DispatcherCallbackReturns
    \/ DispatcherSleepEnds

(* ------------------------- commands and codec -------------------------- *)

SetPinModeI2c ==
    /\ phase = "started"
    /\ \E i2c_port \in {0, 1} :
          Call(Op("set_pin_mode_i2c", 0, None, i2c_port),
               set_pin_mode_i2c(Self, i2c_port))

\* n bytes: first, first + step, ... (mod 256)
Ramp(n, first, step) == [i \in 1..n |-> (first + (i - 1) * step) % 256]

\* the data of an i2c_write: with the 4 bytes before it the command is 4,
\* 5, 255 or 256 bytes long
I2cWriteArgs == {Ramp(n, 7, 1) : n \in {0, 1, MaxCommand - 4, MaxCommand - 3}}

I2cWrite ==
    /\ phase = "started"
    /\ \E args \in I2cWriteArgs, i2c_port \in {0, 1} :
          Call(Op("i2c_write", i2c_port, None, Len(args)),
               i2c_write(Self, 8, args, i2c_port))

AnalogWrite ==
    /\ phase = "started"
    /\ \E pin \in Pins, value \in {0, 255, 256, 65535, 65536} :
          Call(Op("analog_write", pin, None, value), analog_write(Self, pin, value))

SetAnalogScanInterval ==
    /\ phase = "started"
    /\ \E interval \in {0, 255, 256} :
          Call(Op("set_analog_scan_interval", 0, None, interval),
               set_analog_scan_interval(Self, interval))

\* a read of 2 bytes from register 0 of the device at address 8
I2cRead ==
    /\ phase = "started"
    /\ \E callback \in {None, "cb1", "cb2"}, i2c_port \in {0, 1} :
          Call(Op("i2c_read", i2c_port, callback, 0),
               i2c_read(Self, 8, 0, 2, callback, i2c_port))

\* each channel is read with a callback of its own
I2cReadChannel ==
    /\ phase = "started"
    /\ \E i2c_port \in {0, 1} :
          Call(Op("i2c_read", i2c_port, IF i2c_port = 0 THEN "cb1" ELSE "cb2", 0),
               i2c_read(Self, 8, 0, 2, IF i2c_port = 0 THEN "cb1" ELSE "cb2", i2c_port))

I2cReadRestartTransmission ==
    /\ phase = "started"
    /\ \E callback \in {None, "cb1", "cb2"}, i2c_port \in {0, 1} :
          Call(Op("i2c_read_restart_transmission", i2c_port, callback, 0),
               i2c_read_restart_transmission(Self, 8, 0, 2, callback, i2c_port))

SetPinModeAnalogInput ==
    /\ phase = "started"
    /\ \E pin \in CallPins :
          Call(Op("set_pin_mode_analog_input", pin, IF pin = 1 THEN "cb1" ELSE "cb2", 0),
               set_pin_mode_analog_input(Self, pin, 0, IF pin = 1 THEN "cb1" ELSE "cb2"))

LoopBack ==
    /\ phase = "started"
    /\ Call(Op("loop_back", 0, "cb1", 65), loop_back(Self, 65, "cb1"))

\* the calls that take a reporting callback
CallbackCalls ==
    {"set_pin_mode_analog_input", "set_pin_mode_digital_input",
     "set_pin_mode_digital_input_pullup", "set_pin_mode_dht",
     "set_pin_mode_sonar", "i2c_read", "i2c_read_restart_transmission",
     "loop_back"}

\* the call of that name, made for pin 1 (channel 1) with callback None
WithoutCallback(s, name) ==
    CASE name = "set_pin_mode_analog_input" -> set_pin_mode_analog_input(s, 1, 0, None)
      [] name = "set_pin_mode_digital_input" -> set_pin_mode_digital_input(s, 1, None)
      [] name = "set_pin_mode_digital_input_pullup" ->
             set_pin_mode_digital_input_pullup(s, 1, None)
      [] name = "set_pin_mode_dht" -> set_pin_mode_dht(s, 1, None)
      [] name = "set_pin_mode_sonar" -> set_pin_mode_sonar(s, 1, 2, None)
      [] name = "i2c_read" -> i2c_read(s, 8, 0, 2, None, 1)
      [] name = "i2c_read_restart_transmission" ->
             i2c_read_restart_transmission(s, 8, 0, 2, None, 1)
      [] name = "loop_back" -> loop_back(s, 65, None)

CallWithoutCallback ==
    /\ phase = "started"
    /\ \E name \in CallbackCalls :
          Call(Op(name, 1, None, 0), WithoutCallback(Self, name))

\* DHT sensors on the pins 3 and 4
SetPinModeDhtSensor ==
    /\ phase = "started"
    /\ \E pin \in Pins \cap {3, 4} :
          Call(Op("set_pin_mode_dht", pin, "cb1", 0), set_pin_mode_dht(Self, pin, "cb1"))

\* the bytes of the last write of a call, empty when it wrote nothing
RECURSIVE LastWrite(_)
LastWrite(events) ==
    IF events = <<>> THEN <<>>
    ELSE IF events[Len(events)].e = "write" THEN events[Len(events)].bytes
    ELSE LastWrite(SubSeq(events, 1, Len(events) - 1))

\* the frame-reading rule of the dispatcher (lines 919-933) applied to the
\* bytes a command put on the wire: the length byte, then that many bytes
RoundTrip(s) ==
    /\ Install(s)
    /\ op' = Op("round_trip", 0, None, 0)
    /\ IF LastWrite(s.ev) = <<>>
       THEN UNCHANGED <<packet_length, packet>>
       ELSE /\ packet_length' = LastWrite(s.ev)[1]
            /\ packet' = IF Len(LastWrite(s.ev)) - 1 < ReadCount(LastWrite(s.ev)[1])
                          THEN packet  \* the read waits for bytes that never come
                          ELSE SubSeq(Tail(LastWrite(s.ev)), 1,
                                      ReadCount(LastWrite(s.ev)[1]))
    /\ UNCHANGED <<pc, task_exc, sent, dispatched>>

\* the commands of the round trip: an opcode and 0..MaxArgs argument bytes
CodecCommands ==
    {<<opcode>> \o Ramp(n, first, step) :
        opcode \in {LOOP_COMMAND, STOP_ALL_REPORTS, 255},
        n \in 0..MaxArgs, first \in {0, 255}, step \in {0, 1}}

\* one command makes the round trip in a behaviour
CodecRoundTrip ==
    /\ phase = "started"
    /\ op.name # "round_trip"
    /\ \E command \in CodecCommands : RoundTrip(_send_command(Self, command))

(* --------------------------- specifications ---------------------------- *)

\* the connection's life: handshake, registrations, reports, shutdown
Next ==
    \/ StartAio
    \/ Shutdown
    \/ SetPinModeDigitalInput
    \/ DeviceSend
    \/ Dispatcher

Spec == Init /\ [][Next]_vars

\* the bounded device classes
NextDevices ==
    \/ StartAio
    \/ Shutdown
    \/ SetPinModeDht
    \/ SetPinModeSonar

SpecDevices == Init /\ [][NextDevices]_vars

\* commands of every length
NextCommands ==
    \/ StartAio
    \/ Shutdown
    \/ SetPinModeI2c
    \/ I2cWrite
    \/ AnalogWrite
    \/ SetAnalogScanInterval

SpecCommands == Init /\ [][NextCommands]_vars

\* a command encoded by the client and decoded by the dispatcher's rule
NextCodec ==
    \/ StartAio
    \/ CodecRoundTrip

SpecCodec == Init /\ [][NextCodec]_vars

\* the two channels of the secondary bus
NextI2c ==
    \/ StartAio
    \/ Shutdown
    \/ SetPinModeI2c
    \/ I2cRead
    \/ I2cReadRestartTransmission
    \/ I2cWrite

SpecI2c == Init /\ [][NextI2c]_vars

\* calls with arguments the client refuses, among calls it accepts
NextArgs ==
    \/ StartAio
    \/ CallWithoutCallback
    \/ SetPinModeAnalogInput
    \/ LoopBack
    \/ SetPinModeDht
    \/ I2cRead
    \/ SetAnalogScanInterval

SpecArgs == Init /\ [][NextArgs]_vars

\* analog input: registrations and reports
NextAnalog ==
    \/ StartAio
    \/ Shutdown
    \/ SetPinModeAnalogInput
    \/ AnalogSend
    \/ Dispatcher

SpecAnalog == Init /\ [][NextAnalog]_vars

\* secondary bus: read requests and read reports
NextI2cReports ==
    \/ StartAio
    \/ Shutdown
    \/ SetPinModeI2c
    \/ I2cReadChannel
    \/ I2cReadSend
    \/ Dispatcher

SpecI2cReports == Init /\ [][NextI2cReports]_vars

\* DHT sensors: registrations and reports
NextDht ==
    \/ StartAio
    \/ Shutdown
    \/ SetPinModeDhtSensor
    \/ DhtSend
    \/ Dispatcher

SpecDht == Init /\ [][NextDht]_vars

(* ------------------------------ shutdown ------------------------------- *)

\* the frame of the stop-all-reports command
StopFrame == <<1, STOP_ALL_REPORTS>>

\* the last step ran shutdown(), by a call or from an error path
ShutdownRan == \E i \in 1..Len(ev) : ev[i].e = "shutdown"

\* C1: over the client's life the stop-all-reports command is written at
\* most once and a transport is closed at most once, however many times
\* shutdown() runs.
C1_StopCloseAtMostOnce == stop_writes <= 1 /\ closes <= 1

\* C2: no run of shutdown(), in any state of the client, lets an exception
\* out to its caller.
C2_ShutdownNeverRaises == \A i \in 1..Len(ev) : ev[i].e # "shutdown raises"

\* C3: in a shutdown() that writes the stop-all-reports command, the write
\* is followed by the draining of the input and then by the closing of the
\* transport, on the serial port and on the socket.
C3_StopDrainClose ==
    \A i \in 1..Len(ev) :
        (ev[i].e = "write" /\ ev[i].bytes = StopFrame /\ ShutdownRan) =>
            /\ i + 2 <= Len(ev)
            /\ ev[i + 1].e = "reset_input_buffer" /\ ev[i + 1].port = ev[i].port
            /\ ev[i + 2].e = "close" /\ ev[i + 2].port = ev[i].port

\* C4: when shutdown() has returned on a client whose dispatcher task was
\* created, the task has been cancelled, on the serial port and on the socket.
C4_TaskCancelledAfterShutdown ==
    (the_task # None /\ \E i \in 1..Len(ev) : ev[i].e = "shutdown returns")
        => task_cancelled

(* ---------------------------- dispatch order --------------------------- *)

RECURSIVE Flatten(_)
Flatten(frames) ==
    IF frames = <<>> THEN <<>> ELSE Head(frames) \o Flatten(Tail(frames))

IsPrefix(a, b) == Len(a) <= Len(b) /\ a = SubSeq(b, 1, Len(a))

\* the bytes of the frames dispatched so far
DispatchedBytes == Flatten(SubSeq(sent, 1, Len(dispatched)))

\* the bytes the task has read of a frame it has not dispatched yet
PartialFrames ==
    CASE pc = "read_packet" -> {<<packet_length>>}
      [] pc = "dispatch" -> {<<packet_length>> \o packet}
      [] pc = "stopped" -> {<<>>, <<packet_length>>}
      [] OTHER -> {<<>>}

\* C5: the handlers are invoked in the order of the frames on the wire, each
\* with the type and the payload of its frame; every byte is read once: the
\* bytes dispatched, the bytes of the frame being read and the bytes not read
\* yet make up the stream, and while a handler or its callback runs no byte of
\* a later frame has been read.
C5_DispatchInWireOrder ==
    /\ Len(dispatched) <= Len(sent)
    /\ \A k \in 1..Len(dispatched) :
          /\ dispatched[k].report = sent[k][2]
          /\ dispatched[k].data = SubSeq(sent[k], 3, Len(sent[k]))
          /\ Len(dispatched[k].data) = sent[k][1] - 1
          /\ sent[k][2] \in ReportTypes => dispatched[k].handler
    /\ \E partial \in PartialFrames :
          /\ IsPrefix(DispatchedBytes \o partial, Flatten(sent))
          /\ closes = 0 => DispatchedBytes \o partial \o inbuf = Flatten(sent)
    /\ pc \in {"callback", "sleep"} =>
          IsPrefix(DispatchedBytes, Flatten(sent))
          /\ (closes = 0 => DispatchedBytes \o inbuf = Flatten(sent))

\* two frames of different types were dispatched and the callback of the
\* second is running
C5_Witness ==
    /\ Len(dispatched) = 2
    /\ dispatched[1].report # dispatched[2].report
    /\ pc = "callback"

(* ---------------------------- command frames -------------------------- *)

\* C6: every write of a command puts on the wire the number of the bytes
\* that follow, then the opcode and the arguments as they were given; a
\* command of more than 255 bytes is not written, not even in part.
C6_CommandFrames ==
    \A i \in 1..Len(ev) :
        /\ ev[i].e = "write" =>
              /\ i > 1 /\ ev[i - 1].e = "send_command"
              /\ Len(ev[i - 1].bytes) <= 255
              /\ ev[i].bytes[1] = Len(ev[i].bytes) - 1
              /\ ev[i].bytes[1] = 1 + (Len(ev[i - 1].bytes) - 1)
              /\ Tail(ev[i].bytes) = ev[i - 1].bytes
        /\ (ev[i].e = "send_command" /\ Len(ev[i].bytes) > 255) =>
              /\ i = Len(ev)
              /\ exc = "ValueError"

\* an i2c_write whose command is 255 bytes long was written
C6_Witness ==
    /\ op.name = "i2c_write"
    /\ \E i \in 1..Len(ev) : ev[i].e = "write" /\ ev[i].bytes[1] = 255

\* C7: a command of an opcode and 0 to 254 argument bytes, written by
\* _send_command and read back by the dispatcher's rule (the length L, then L
\* bytes, the first the type, the rest the payload), gives the opcode and the
\* argument bytes again.
C7_RoundTrip ==
    (op.name = "round_trip" /\ Len(ev[1].bytes) <= 255) =>
        /\ Len(ev) = 2 /\ ev[2].e = "write"
        /\ packet_length = Len(ev[1].bytes)
        /\ packet[1] = ev[1].bytes[1]
        /\ SubSeq(packet, 2, Len(packet)) = Tail(ev[1].bytes)

\* a command with 254 argument bytes made the round trip
C7_Witness ==
    /\ op.name = "round_trip"
    /\ Len(ev[1].bytes) = 255
    /\ Len(packet) = 255
    /\ packet[255] # packet[2]

(* --------------------------- device limits ----------------------------- *)

\* the last step was a registration that the device limit rejected
RejectedDht == op.name = "set_pin_mode_dht" /\ exc = "RuntimeError: device limit"
RejectedSonar == op.name = "set_pin_mode_sonar" /\ exc = "RuntimeError: device limit"

\* C8: the registrations up to the maximum succeed and the one after them
\* fails with the device limit error: a registration is rejected by the limit
\* exactly when MAX_DHTS (MAX_SONARS) devices are registered.
C8_ExactlyMaxSucceed ==
    /\ RejectedDht => dht_count >= MAX_DHTS
    /\ RejectedSonar => sonar_count >= MAX_SONARS
    /\ dht_count <= MAX_DHTS
    /\ sonar_count <= MAX_SONARS

\* the writes among the events
Writes(events) == {i \in 1..Len(events) : events[i].e = "write"}

\* C9 as claimed: a registration rejected by the limit writes no byte and
\* leaves the registry and the counter as they were.
C9_RejectedWritesNothing ==
    [][(RejectedDht' \/ RejectedSonar') =>
          /\ Writes(ev') = {}
          /\ dht_callbacks' = dht_callbacks /\ dht_count' = dht_count
          /\ sonar_callbacks' = sonar_callbacks /\ sonar_count' = sonar_count]_vars

\* C9 as amended: a registration rejected by the limit writes no DHT_NEW or
\* SONAR_NEW command and leaves the registry and the counter as they were; it
\* writes nothing at all unless shutdown_on_exception is set, and then nothing
\* but the stop-all-reports frame of the shutdown it runs.
C9_RejectedWritesOnlyStop ==
    [][(RejectedDht' \/ RejectedSonar') =>
          /\ \A i \in Writes(ev') :
                shutdown_on_exception /\ ev'[i].bytes = StopFrame
          /\ Cardinality(Writes(ev')) <= 1
          /\ dht_callbacks' = dht_callbacks /\ dht_count' = dht_count
          /\ sonar_callbacks' = sonar_callbacks /\ sonar_count' = sonar_count]_vars

\* a rejected registration ran shutdown, which wrote the stop frame
C9_Witness ==
    /\ RejectedDht
    /\ \E i \in Writes(ev) : ev[i].bytes = StopFrame

\* C10: the counters never exceed their maxima.
C10_CountersBounded == dht_count <= MAX_DHTS /\ sonar_count <= MAX_SONARS

\* a registration was rejected with a counter at the highest value it takes
C10_Witness == RejectedSonar /\ sonar_count = MAX_SONARS - 1 /\ dht_count = MAX_DHTS - 1

(* --------------------------- secondary bus ----------------------------- *)

I2cReads == {"i2c_read", "i2c_read_restart_transmission"}

NotActive == "RuntimeError: i2c port not active"

CallbackRequired == "RuntimeError: callback required"

\* set_pin_mode_i2c(c) has run: the flag of channel c
ChannelActive(c) == IF c = 0 THEN i2c_1_active ELSE i2c_2_active

\* C11 as claimed: a read or a write on channel c fails with the
\* channel-not-active error when c was never activated, whatever the other
\* channel's state, and passes the test when c is active.
C11_NotActiveWheneverInactive ==
    [][(op'.name \in I2cReads \cup {"i2c_write"}) =>
          (exc' = NotActive) = ~ChannelActive(op'.pin)]_vars

\* C11 as amended: the same for a write and for a read that is given a
\* callback; a read without a callback fails with the callback-required error
\* before the channel is looked at.
C11_NotActiveAfterCallbackTest ==
    [][/\ (op'.name = "i2c_write" \/ (op'.name \in I2cReads /\ op'.callback # None)) =>
             (exc' = NotActive) = ~ChannelActive(op'.pin)
       /\ (op'.name \in I2cReads /\ op'.callback = None) =>
             exc' = CallbackRequired]_vars

\* a read on channel 1 was refused while channel 0 is active
C11_Witness ==
    /\ op.name = "i2c_read" /\ op.pin = 1 /\ op.callback # None
    /\ exc = NotActive
    /\ i2c_1_active /\ ~i2c_2_active

\* C12 as claimed: a read refused for an inactive channel writes no byte and
\* leaves the callback slots as they were.
C12_RefusedReadWritesNothing ==
    [][(op'.name \in I2cReads /\ exc' = NotActive) =>
          /\ Writes(ev') = {}
          /\ i2c_callback' = i2c_callback /\ i2c_callback2' = i2c_callback2]_vars

\* C12 as amended: a read refused for an inactive channel writes no I2C_READ
\* command and leaves the callback slots as they were; it writes nothing at
\* all unless shutdown_on_exception is set, and then nothing but the
\* stop-all-reports frame of the shutdown it runs.
C12_RefusedReadWritesOnlyStop ==
    [][(op'.name \in I2cReads /\ exc' = NotActive) =>
          /\ \A i \in Writes(ev') :
                shutdown_on_exception /\ ev'[i].bytes = StopFrame
          /\ Cardinality(Writes(ev')) <= 1
          /\ i2c_callback' = i2c_callback /\ i2c_callback2' = i2c_callback2]_vars

\* channel 0 has a callback and a read on channel 1, given another callback,
\* was refused
C12_Witness ==
    /\ op.name \in I2cReads /\ op.pin = 1 /\ op.callback = "cb2"
    /\ exc = NotActive
    /\ i2c_callback = "cb1" /\ i2c_callback2 = None

\* C15: a set_pin_mode_i2c(c) on a channel that is not active marks it
\* active and, on an open transport, writes exactly one frame, the I2C_BEGIN
\* command for c; a set_pin_mode_i2c(c) on an active channel writes nothing,
\* raises nothing and changes no attribute of the client.
C15_ActivationIdempotent ==
    [][op'.name = "set_pin_mode_i2c" =>
          IF ChannelActive(op'.value)
          THEN /\ ev' = <<>> /\ exc' = ""
               /\ clientFixed' = clientFixed /\ inbuf' = inbuf
          ELSE /\ IF op'.value = 0 THEN i2c_1_active' ELSE i2c_2_active'
               /\ ReadTransportOpen =>
                     /\ Cardinality(Writes(ev')) = 1
                     /\ \A i \in Writes(ev') :
                           ev'[i].bytes = <<2, I2C_BEGIN, op'.value>>]_vars

\* channel 1 was activated a second time
C15_Witness ==
    /\ op.name = "set_pin_mode_i2c" /\ op.value = 1
    /\ ev = <<>> /\ i2c_2_active /\ ReadTransportOpen

(* --------------------------- argument errors --------------------------- *)

\* the callback registries, the device counters and the activation flags
Registries ==
    <<analog_callbacks, digital_callbacks, i2c_callback, i2c_callback2,
      loop_back_callback, sonar_callbacks, dht_callbacks, sonar_count,
      dht_count, i2c_1_active, i2c_2_active>>

\* C13 as claimed: a call that takes a reporting callback and is given none
\* raises the callback-required error and no byte is written.
C13_NoCallbackWritesNothing ==
    [][(op'.name \in CallbackCalls /\ op'.callback = None) =>
          /\ exc' = CallbackRequired
          /\ Writes(ev') = {}]_vars

\* C13 as amended: a call that takes a reporting callback and is given none
\* raises the callback-required error, stores no callback and writes no
\* command of its own; it writes nothing at all unless shutdown_on_exception
\* is set, and then nothing but the stop-all-reports frame of the shutdown it
\* runs.
C13_NoCallbackWritesOnlyStop ==
    [][(op'.name \in CallbackCalls /\ op'.callback = None) =>
          /\ exc' = CallbackRequired
          /\ \A i \in Writes(ev') :
                shutdown_on_exception /\ ev'[i].bytes = StopFrame
          /\ Cardinality(Writes(ev')) <= 1
          /\ Registries' = Registries]_vars

\* a loop_back without a callback ran shutdown, which wrote the stop frame
C13_Witness ==
    /\ op.name = "loop_back" /\ op.callback = None
    /\ exc = CallbackRequired
    /\ \E i \in Writes(ev) : ev[i].bytes = StopFrame

\* the errors of a call's arguments
ArgumentErrors ==
    {CallbackRequired, NotActive, "RuntimeError: device limit",
     "RuntimeError: analog interval"}

\* C14 as claimed: a call that ends with an argument error leaves the
\* shutdown flag, the transports, the registries, the counters and the
\* activation flags as they were.
C14_ArgumentErrorNoSideEffect ==
    [][exc' \in ArgumentErrors =>
          /\ shutdown_flag' = shutdown_flag
          /\ ports' = ports /\ sock' = sock /\ serial_port' = serial_port
          /\ Registries' = Registries]_vars

\* C14 as amended: a call that ends with an argument error leaves the
\* registries, the counters and the activation flags as they were; without
\* shutdown_on_exception it changes no attribute of the client at all, and
\* with it (the default) shutdown() has run: the shutdown flag is set.
C14_ArgumentErrorRunsShutdown ==
    [][exc' \in ArgumentErrors =>
          /\ Registries' = Registries
          /\ ~shutdown_on_exception =>
                clientFixed' = clientFixed /\ inbuf' = inbuf /\ Writes(ev') = {}
          /\ shutdown_on_exception =>
                shutdown_flag' /\ shutdown_runs' = shutdown_runs + 1]_vars

\* an interval out of range closed the serial port of a client that has a
\* DHT sensor registered
C14_Witness ==
    /\ op.name = "set_analog_scan_interval" /\ exc = "RuntimeError: analog interval"
    /\ shutdown_flag /\ closes = 1 /\ dht_count > 0
    /\ \E i \in 1..Len(ev) : ev[i].e = "close"

(* ------------------------------- reports ------------------------------- *)

\* the handler of a frame ran in the last step
HandlerRan == op.name = "dispatcher_dispatch" /\ Len(dispatched) > 0

\* the frame whose handler ran last
LastDispatched == dispatched[Len(dispatched)]

\* the callbacks awaited in the last step
CallbackEvents == {i \in 1..Len(ev) : ev[i].e = "callback"}

FatalReports == {SERVO_UNAVAILABLE, I2C_TOO_FEW_BYTES_RCVD, I2C_TOO_MANY_BYTES_RCVD}

FatalErrors ==
    {"RuntimeError: servo unavailable", "RuntimeError: i2c too few bytes",
     "RuntimeError: i2c too many bytes"}

\* C16: when the error of a fatal report leaves its handler, shutdown has run
\* (on a client with shutdown_on_exception, the default): the shutdown flag
\* is set, the stop command was written and the transport is closed; the
\* fatal frame is the last frame dispatched and the task has ended.
C16_FatalReportShutsDown ==
    task_exc \in FatalErrors =>
        /\ pc = "stopped"
        /\ LastDispatched.report \in FatalReports
        /\ shutdown_on_exception =>
              /\ shutdown_flag
              /\ stop_writes >= 1
              /\ ~ReadTransportOpen

\* C17: an analog report for a pin registered with set_pin_mode_analog_input
\* makes the dispatcher await exactly one callback, the one stored for that
\* pin, with the message [AT_ANALOG, pin, value_hi * 256 + value_lo] (the
\* time stamp, the last entry, is left out), and the handler raises nothing.
C17_AnalogReportOneCallback ==
    (/\ HandlerRan
     /\ LastDispatched.report = ANALOG_REPORT
     /\ Len(LastDispatched.data) = 3
     /\ HasKey(analog_callbacks, LastDispatched.data[1])) =>
        /\ task_exc = ""
        /\ Cardinality(CallbackEvents) = 1
        /\ \A i \in CallbackEvents :
              /\ ev[i].cb = analog_callbacks[LastDispatched.data[1]]
              /\ ev[i].bytes =
                     <<AT_ANALOG, LastDispatched.data[1],
                       LastDispatched.data[2] * 256 + LastDispatched.data[3]>>

\* both pins have a handler and the report for the last pin, 255 * 256 + 254,
\* went to the handler of that pin
C17_Witness ==
    /\ HandlerRan
    /\ LastDispatched.report = ANALOG_REPORT
    /\ analog_callbacks[1] = "cb1" /\ analog_callbacks[MaxPin] = "cb2"
    /\ \E i \in CallbackEvents :
          ev[i].cb = "cb2" /\ ev[i].bytes = <<AT_ANALOG, MaxPin, 65534>>

\* the callback slot of the channel a read report names in its first byte
ReportSlot(data) == IF data[1] = 0 THEN i2c_callback ELSE i2c_callback2

\* C18: a read report whose first payload byte is 0 is delivered to the
\* callback of channel 0 and one whose first payload byte is not 0 to the
\* callback of channel 1, never to the other channel's; the callback gets
\* [I2C_READ_REPORT] followed by the payload as it came, data bytes last (the
\* time stamp, the last entry, is left out). With no callback stored for the
\* channel no callback is awaited.
C18_I2cReportToItsChannel ==
    (/\ HandlerRan
     /\ LastDispatched.report = I2C_READ_REPORT
     /\ Len(LastDispatched.data) >= 2) =>
        IF ReportSlot(LastDispatched.data) = None
        THEN CallbackEvents = {}
        ELSE /\ task_exc = ""
             /\ Cardinality(CallbackEvents) = 1
             /\ \A i \in CallbackEvents :
                   /\ ev[i].cb = ReportSlot(LastDispatched.data)
                   /\ ev[i].bytes = <<I2C_READ_REPORT>> \o LastDispatched.data

\* the channels have different callbacks and the report [0][2][8][0][5][6]
\* went to the callback of channel 0
C18_Witness ==
    /\ HandlerRan
    /\ LastDispatched.data = <<0, 2, 8, 0, 5, 6>>
    /\ i2c_callback = "cb1" /\ i2c_callback2 = "cb2"
    /\ \E i \in CallbackEvents :
          ev[i].cb = "cb1" /\ ev[i].bytes = <<I2C_READ_REPORT, 0, 2, 8, 0, 5, 6>>

\* C19: the DHT report with the payload 3, 4, the bytes of 55.5, the bytes of
\* 21.0, on a client with DHT handlers for the pins 3 and 4, is delivered as
\* the data tuple [DHT_REPORT, 0, 3, 4, 55.5, 21.0] (the time stamp, the last
\* entry, is left out; a float is given by its bit pattern).
C19_DhtDataTuple ==
    (/\ HandlerRan
     /\ LastDispatched.report = DHT_REPORT
     /\ LastDispatched.data = <<3, 4>> \o Humidity \o Temperature
     /\ HasKey(dht_callbacks, 3) /\ HasKey(dht_callbacks, 4)) =>
        /\ Cardinality(CallbackEvents) = 1
        /\ \A i \in CallbackEvents :
              ev[i].bytes = <<DHT_REPORT, 0, 3, 4, 1113456640, 1101529088>>

\* C20: when the reply to the version query is empty, start_aio ends with the
\* firmware-version error after shutdown has run (on a client with
\* shutdown_on_exception, the default), on the serial port and on the socket;
\* the enable-all-reports and the reset commands are not sent and the
\* dispatcher task is not created.
C20_FirmwareTimeout ==
    (/\ op.name = "start_aio"
     /\ \E i \in 3..Len(ev) :
           /\ ev[i].e = "read" /\ ev[i].bytes = <<>>
           /\ ev[i - 2].e = "send_command"
           /\ ev[i - 2].bytes = <<GET_FIRMWARE_VERSION>>) =>
        /\ exc = "RuntimeError: firmware version"
        /\ shutdown_on_exception => shutdown_flag
        /\ the_task = None /\ pc = "none"
        /\ \A i \in 1..Len(ev) :
              ev[i].e = "send_command" =>
                  ev[i].bytes \notin {<<ENABLE_ALL_REPORTS>>, <<RESET>>}

(* ------------------------ the end of start_aio -------------------------- *)

\* the places of the events of one kind that carry the bytes
EventsAt(events, kind, bytes) ==
    {i \in 1..Len(events) : events[i].e = kind /\ events[i].bytes = bytes}

\* start_aio returned without an exception
StartAioSucceeded == op.name = "start_aio" /\ exc = ""

\* C21 as stated: when start_aio succeeds, enable-all-reports is written,
\* then reset, and the dispatcher task is created only after the reset
\* command was written.
C21_TaskCreatedAfterReset ==
    StartAioSucceeded =>
        \E e \in EventsAt(ev, "write", Framed(<<ENABLE_ALL_REPORTS>>)),
           r \in EventsAt(ev, "write", Framed(<<RESET>>)),
           t \in EventsAt(ev, "create_task", <<>>) : e < r /\ r < t

\* C21 amended: when start_aio succeeds, enable-all-reports is written,
\* then the dispatcher task is created, and the reset command is written
\* after the task exists; each of the three happens exactly once.
C21_TaskCreatedBeforeReset ==
    StartAioSucceeded =>
        /\ \E e \in EventsAt(ev, "write", Framed(<<ENABLE_ALL_REPORTS>>)),
              t \in EventsAt(ev, "create_task", <<>>),
              r \in EventsAt(ev, "write", Framed(<<RESET>>)) : e < t /\ t < r
        /\ Cardinality(EventsAt(ev, "write", Framed(<<ENABLE_ALL_REPORTS>>))) = 1
        /\ Cardinality(EventsAt(ev, "create_task", <<>>)) = 1
        /\ Cardinality(EventsAt(ev, "write", Framed(<<RESET>>))) = 1
        /\ the_task # None

C21_Witness == StartAioSucceeded /\ the_task # None /\ pc = "top"

(* ------------------------- the identity probe --------------------------- *)

\* the places of the replies to the identity probe: the read that follows
\* the ARE_U_THERE command and its write
ProbeReads(events) ==
    {i \in 3..Len(events) :
        /\ events[i].e = "read"
        /\ events[i - 2].e = "send_command"
        /\ events[i - 2].bytes = <<ARE_U_THERE>>}

\* the reply carries the instance identifier the client was built with
Matches(reply) == reply # <<>> /\ reply[3] = arduino_instance_id

NoArduinoFound == "RuntimeError: no arduino found"

\* C22: serial discovery (no com_port given) probes the opened candidates
\* in their order starting with the first, probes no candidate after one
\* that matched, and takes the matching one as com_port; when no candidate
\* matches (or there is none) every candidate was probed, start_aio raises
\* the no-arduino-found error and sends no firmware version query.
C22_DiscoveryFirstMatch ==
    [][(op'.name = "start_aio" /\ ~ip_address /\ com_port = NoPort) =>
          /\ {ev'[i].port : i \in ProbeReads(ev')}
                 = 1..Cardinality(ProbeReads(ev'))
          /\ \A i, j \in ProbeReads(ev') :
                 i < j => ev'[i].port < ev'[j].port /\ ~Matches(ev'[i].bytes)
          /\ IF \E i \in ProbeReads(ev') : Matches(ev'[i].bytes)
             THEN /\ \E i \in ProbeReads(ev') :
                        Matches(ev'[i].bytes) /\ com_port' = ev'[i].port
                  /\ exc' # NoArduinoFound
             ELSE /\ Cardinality(ProbeReads(ev'))
                        = Cardinality(EventsAt(ev', "open", <<>>))
                  /\ com_port' = NoPort
                  /\ exc' = NoArduinoFound
                  /\ EventsAt(ev', "send_command", <<GET_FIRMWARE_VERSION>>) = {}
                  /\ the_task' = None]_vars

\* two candidates were opened, the first matched and the second was not probed
C22_Witness ==
    /\ op.name = "start_aio"
    /\ Cardinality(EventsAt(ev, "open", <<>>)) = 2
    /\ Cardinality(ProbeReads(ev)) = 1
    /\ com_port = 1

\* two candidates were opened and probed and neither matched
C22_WitnessNone ==
    /\ op.name = "start_aio"
    /\ Cardinality(EventsAt(ev, "open", <<>>)) = 2
    /\ Cardinality(ProbeReads(ev)) = 2
    /\ exc = NoArduinoFound

\* C23 as stated: with a com_port given, start_aio opens and probes that
\* port only, and when the reply to the probe is missing or carries another
\* instance identifier start_aio fails and sends no firmware version query.
C23_ManualOpenChecksIdentity ==
    [][(op'.name = "start_aio" /\ ~ip_address /\ com_port # NoPort) =>
          /\ \A i \in 1..Len(ev') :
                 ev'[i].e \in {"open", "read", "write"} => ev'[i].port = com_port
          /\ Cardinality(ProbeReads(ev')) = 1
          /\ (\E i \in ProbeReads(ev') : ~Matches(ev'[i].bytes)) =>
                 /\ exc' # ""
                 /\ EventsAt(ev', "send_command", <<GET_FIRMWARE_VERSION>>) = {}
                 /\ the_task' = None]_vars

(* --------------------------- re-registration ---------------------------- *)

\* the callbacks a key is registered with: cb1 when it has none (the
\* callbacks are interchangeable), either of the two afterwards
Handlers(registered) == IF registered = None THEN {"cb1"} ELSE Callbacks

ReRegisterDigital ==
    /\ phase = "started"
    /\ \E callback \in Handlers(digital_callbacks[1]) :
          Call(Op("set_pin_mode_digital_input", 1, callback, 0),
               set_pin_mode_digital_input(Self, 1, callback))

ReRegisterSonar ==
    /\ phase = "started"
    /\ \E callback \in Handlers(sonar_callbacks[1]) :
          Call(Op("set_pin_mode_sonar", 1, callback, 0),
               set_pin_mode_sonar(Self, 1, 1 + MaxPin, callback))

\* one report for each of the keys: digital pin 1 and sonar trigger pin 1
RegistryFrames ==
    {<<3, DIGITAL_REPORT, 1, 1>>, <<4, SONAR_DISTANCE, 1, 0, 50>>}

RegistrySend == DeviceSends(RegistryFrames)

NextRegistry ==
    \/ StartAio
    \/ ReRegisterDigital
    \/ ReRegisterSonar
    \/ RegistrySend
    \/ Dispatcher

SpecRegistry == Init /\ [][NextRegistry]_vars

\* the calls that register a callback for a key
RegistrationOps ==
    {"set_pin_mode_digital_input", "set_pin_mode_analog_input",
     "set_pin_mode_sonar", "set_pin_mode_dht", "i2c_read"}

\* the callback the registry of a registration call holds for a key
Registered(name, key) ==
    CASE name = "set_pin_mode_digital_input" -> digital_callbacks[key]
      [] name = "set_pin_mode_analog_input" -> analog_callbacks[key]
      [] name = "set_pin_mode_sonar" -> sonar_callbacks[key]
      [] name = "set_pin_mode_dht" -> dht_callbacks[key]
      [] OTHER -> IF key = 0 THEN i2c_callback ELSE i2c_callback2

\* the reports that are delivered to the callback of a key
KeyedReports ==
    {DIGITAL_REPORT, ANALOG_REPORT, SONAR_DISTANCE, DHT_REPORT, I2C_READ_REPORT}

\* the callback registered for the key of a report
HandlerFor(report, data) ==
    CASE report = DIGITAL_REPORT -> digital_callbacks[data[1]]
      [] report = ANALOG_REPORT -> analog_callbacks[data[1]]
      [] report = SONAR_DISTANCE -> sonar_callbacks[data[1]]
      [] report = DHT_REPORT -> dht_callbacks[data[2]]
      [] OTHER -> IF data[1] = 0 THEN i2c_callback ELSE i2c_callback2

\* a registration that returned left its callback in the registry
RegistrationStored ==
    (op.name \in RegistrationOps /\ exc = "") =>
        Registered(op.name, op.pin) = op.callback

\* the report just dispatched went to the callback registered for its key
\* and to no other
DeliveredToRegistered ==
    (HandlerRan /\ LastDispatched.report \in KeyedReports) =>
        /\ \A i \in CallbackEvents :
              ev[i].cb = HandlerFor(LastDispatched.report, LastDispatched.data)
        /\ HandlerFor(LastDispatched.report, LastDispatched.data) # None =>
              Cardinality(CallbackEvents) = 1

ProtocolFrames ==
    {<<2, 50, 0>>, <<2, LOOP_COMMAND, 65>>, <<3, I2C_TOO_FEW_BYTES_RCVD, 0, 8>>}

ProtocolSend == DeviceSends(ProtocolFrames)

\* the serial channel goes away under the client: the device is unplugged
TransportLoss ==
    /\ phase = "started"
    /\ ~ip_address
    /\ ReadTransportOpen
    /\ ports' = [ports EXCEPT ![serial_port] = "closed"]
    /\ Quiet("transport_loss")
    /\ UNCHANGED <<ip_address, com_port, shutdown_on_exception,
                   close_loop_on_shutdown, sock, serial_port, the_task,
                   shutdown_flag, analog_callbacks, digital_callbacks,
                   i2c_callback, i2c_callback2, i2c_1_active, i2c_2_active,
                   loop_back_callback, sonar_callbacks, sonar_count,
                   dht_callbacks, dht_count, inbuf, task_cancelled, loop_stopped,
                   phase, shutdown_runs, stop_writes, closes, taskVars>>

NextProtocol ==
    \/ StartAio
    \/ Shutdown
    \/ LoopBack
    \/ ProtocolSend
    \/ TransportLoss
    \/ Dispatcher

SpecProtocol == Init /\ [][NextProtocol]_vars

\* the frame just dispatched has a report type without a handler
UnknownReportDispatched ==
    HandlerRan /\ LastDispatched.report \notin ReportTypes

\* C25 as stated: a frame whose report type has no handler is fatal: no
\* callback is awaited for it, the dispatcher stops with the error, and the
\* client is shut down (the shutdown flag is set, asked for here only of a
\* client with shutdown_on_exception, which decides that on every other
\* fatal path).
C25_UnknownReportShutsDown ==
    UnknownReportDispatched =>
        /\ CallbackEvents = {}
        /\ pc = "stopped"
        /\ task_exc # ""
        /\ shutdown_on_exception => shutdown_flag

\* the exceptions a lookup or a handler ends the dispatcher with
HandlerErrors ==
    {"KeyError", "TypeError", "IndexError", "struct.error"} \cup RuntimeErrors

\* C27 as stated: the dispatcher is stopped only when the shutdown flag is
\* set or a transport operation failed; whatever frame was received and
\* whatever its handler did, the dispatcher goes on otherwise.
C27_StoppedOnlyByFlagOrTransport ==
    /\ pc = "stopped" => (shutdown_flag \/ task_exc = "SerialException")
    /\ (HandlerRan /\ ~shutdown_flag) => pc # "stopped"

\* C27 amended: the dispatcher is stopped when it found the shutdown flag
\* set at the top of an iteration, when a transport read failed, when
\* shutdown cancelled the task, or when the handler lookup or the handler
\* raised (a report type without a handler gives KeyError); after a
\* dispatch it is stopped exactly when the dispatch raised, and a report
\* whose handler returns, such as a loop-back report, leaves it running.
C27_StoppedByFlagFailureOrException ==
    /\ pc = "stopped" =>
          \/ task_exc = "" /\ shutdown_flag
          \/ task_exc = "SerialException"
          \/ task_exc = "CancelledError" /\ shutdown_flag
          \/ task_exc \in HandlerErrors
    /\ HandlerRan => (pc = "stopped" <=> task_exc # "")
    /\ UnknownReportDispatched => task_exc = "KeyError"
    /\ (HandlerRan /\ LastDispatched.report = LOOP_COMMAND) =>
          pc \in {"callback", "sleep"}

\* a fatal report on a client without shutdown_on_exception stopped the
\* dispatcher while the shutdown flag is not set and the transport is open
C27_Witness ==
    /\ HandlerRan
    /\ pc = "stopped"
    /\ ~shutdown_flag
    /\ ReadTransportOpen
    /\ task_exc = "RuntimeError: i2c too few bytes"

\* C28: when the read of the length byte fails because the channel is
\* closed, the dispatcher is stopped by that failure, whether or not the
\* shutdown flag is set, and a stopped dispatcher stays stopped: it makes
\* no further read.
C28_FailedLengthReadStops ==
    [][/\ (pc = "read_length" /\ op'.name = "dispatcher_read_fails") =>
              (pc' = "stopped" /\ task_exc' = "SerialException")
       /\ pc = "stopped" => pc' = "stopped"]_vars

\* no frame was ever sent, so the read that failed was that of a length
\* byte, and the shutdown flag is not set
C28_Witness ==
    /\ op.name = "dispatcher_read_fails"
    /\ sent = <<>>
    /\ pc = "stopped"
    /\ ~shutdown_flag

(* -------------------- reports for unregistered keys --------------------- *)

\* reports for keys without a callback: digital pin 1 (until it is
\* registered), analog pin 1, sonar trigger pin 1, a DHT error report for
\* pin 3, a read report of the first channel
UnregisteredFrames ==
    {<<3, DIGITAL_REPORT, 1, 1>>, <<4, ANALOG_REPORT, 1, 1, 2>>,
     <<4, SONAR_DISTANCE, 1, 0, 50>>, <<4, DHT_REPORT, 1, 3, 2>>,
     <<7, I2C_READ_REPORT, 0, 2, 8, 0, 5, 6>>}

UnregisteredSend == DeviceSends(UnregisteredFrames)

NextUnregistered ==
    \/ StartAio
    \/ Shutdown
    \/ ReRegisterDigital
    \/ UnregisteredSend
    \/ Dispatcher

SpecUnregistered == Init /\ [][NextUnregistered]_vars

\* C26: a digital, analog, sonar, DHT or i2c read report for a key that has
\* no callback is not dropped: the dispatch raises (KeyError for the pin
\* registries, TypeError for the empty i2c slot), no callback is awaited,
\* and the dispatcher stops with that error instead of going on to the next
\* frame.
C26_UnregisteredReportIsError ==
    (/\ HandlerRan
     /\ LastDispatched.report \in KeyedReports
     /\ HandlerFor(LastDispatched.report, LastDispatched.data) = None) =>
        /\ task_exc =
              IF LastDispatched.report = I2C_READ_REPORT THEN "TypeError"
              ELSE "KeyError"
        /\ pc = "stopped"
        /\ CallbackEvents = {}

C26_Witness ==
    /\ HandlerRan
    /\ LastDispatched.report = DIGITAL_REPORT
    /\ digital_callbacks[LastDispatched.data[1]] = None
    /\ task_exc = "KeyError"
    /\ Len(sent) > Len(dispatched)

(* ------------------------------- flags ---------------------------------- *)

\* C29: the shutdown flag is false when the client is constructed, and no
\* step of the client, of the dispatcher or of the device takes a flag that
\* is set back to false.
C29_ShutdownFlagMonotonic ==
    /\ ~shutdown_flag
    /\ [][shutdown_flag => shutdown_flag']_vars

\* a call was made on a client whose flag was set by an earlier shutdown
C29_Witness ==
    /\ shutdown_flag
    /\ op.name = "set_pin_mode_digital_input"
    /\ ~ShutdownRan

\* C30: both channels start inactive; set_pin_mode_i2c(c) leaves channel c
\* active and does not touch the flag of the other channel; no other step
\* changes either flag, and no step makes an active channel inactive.
C30_ActivationFlagsIndependent ==
    /\ ~i2c_1_active /\ ~i2c_2_active
    /\ [][/\ i2c_1_active => i2c_1_active'
          /\ i2c_2_active => i2c_2_active'
          /\ IF op'.name = "set_pin_mode_i2c"
             THEN IF op'.value = 0
                  THEN i2c_1_active' /\ i2c_2_active' = i2c_2_active
                  ELSE i2c_2_active' /\ i2c_1_active' = i2c_1_active
             ELSE i2c_1_active' = i2c_1_active /\ i2c_2_active' = i2c_2_active]_vars

\* the second channel was activated while the first one was active
C30_Witness ==
    /\ op.name = "set_pin_mode_i2c"
    /\ op.value = 1
    /\ Writes(ev) # {}
    /\ i2c_1_active /\ i2c_2_active

(* ------------------------- the device counters -------------------------- *)

\* the frame was written in the step
Written(events, frame) == EventsAt(events, "write", frame) # {}

\* C31 as stated: dht_count and sonar_count never decrease; a step changes a
\* counter only when it is a registration call that returned without an
\* error and whose DHT_NEW (SONAR_NEW) frame was written, and then by one; a
\* registration that ends in an error leaves the counter as it was.
C31_CountedOnlyWhenWritten ==
    [][/\ dht_count' >= dht_count
       /\ sonar_count' >= sonar_count
       /\ dht_count' # dht_count =>
              /\ op'.name = "set_pin_mode_dht" /\ exc' = ""
              /\ dht_count' = dht_count + 1
              /\ Written(ev', Framed(<<DHT_NEW, op'.pin>>))
       /\ sonar_count' # sonar_count =>
              /\ op'.name = "set_pin_mode_sonar" /\ exc' = ""
              /\ sonar_count' = sonar_count + 1
              /\ Written(ev', Framed(<<SONAR_NEW, op'.pin, op'.pin + MaxPin>>))]_vars

(* --------------------------- digital inputs ----------------------------- *)

\* pin 1 is made a digital input with cb1 and pin MaxPin a digital input
\* with pullup with cb2
SetPinModeDigitalInputs ==
    /\ phase = "started"
    /\ \/ Call(Op("set_pin_mode_digital_input", 1, "cb1", 0),
               set_pin_mode_digital_input(Self, 1, "cb1"))
       \/ Call(Op("set_pin_mode_digital_input_pullup", MaxPin, "cb2", 0),
               set_pin_mode_digital_input_pullup(Self, MaxPin, "cb2"))

\* digital reports for the two pins
DigitalFrames == {<<3, DIGITAL_REPORT, 1, 1>>, <<3, DIGITAL_REPORT, MaxPin, 0>>}

DigitalSend == DeviceSends(DigitalFrames)

NextDigital ==
    \/ StartAio
    \/ Shutdown
    \/ SetPinModeDigitalInputs
    \/ DigitalSend
    \/ Dispatcher

SpecDigital == Init /\ [][NextDigital]_vars

\* C32 as stated: the message a digital report hands to the callback starts
\* with the pin mode of the registration: 0 for the pin registered with
\* set_pin_mode_digital_input (cb1), 11 for the pin registered with
\* set_pin_mode_digital_input_pullup (cb2).
C32_DigitalMessagePinMode ==
    (HandlerRan /\ LastDispatched.report = DIGITAL_REPORT) =>
        \A i \in CallbackEvents :
            /\ ev[i].cb = "cb1" => ev[i].bytes[1] = 0
            /\ ev[i].cb = "cb2" => ev[i].bytes[1] = 11

(* --------------------------- 16-bit values ------------------------------ *)

\* the 16-bit values the calls are made with: every high byte with the low
\* bytes at the ends and in the middle, every low byte with the high bytes
\* at the ends, and the first value that does not fit
WordValues ==
    {hi * 256 + lo : hi \in 0..255, lo \in {0, 1, 127, 128, 255}}
        \cup {hi * 256 + lo : hi \in {0, 1, 255}, lo \in 0..255}
        \cup {65536}

\* one call with a 16-bit value is made in a behaviour
AnalogWriteWord ==
    /\ phase = "started"
    /\ op.name = "start_aio"
    /\ \E value \in WordValues :
          Call(Op("analog_write", 1, None, value), analog_write(Self, 1, value))

SetPinModeAnalogDifferential ==
    /\ phase = "started"
    /\ op.name = "start_aio"
    /\ \E differential \in WordValues :
          Call(Op("set_pin_mode_analog_input", 1, "cb1", differential),
               set_pin_mode_analog_input(Self, 1, differential, "cb1"))

NextWords ==
    \/ StartAio
    \/ AnalogWriteWord
    \/ SetPinModeAnalogDifferential

SpecWords == Init /\ [][NextWords]_vars

\* the value the analog report handler hands to the callback of pin 1 for
\* the two value bytes hi and lo
DecodedAnalog(hi, lo) ==
    _analog_message([Self EXCEPT !.analog_callbacks[1] = "cb1", !.ev = <<>>],
                    <<1, hi, lo>>).ev[1].bytes[3]

\* the same for the distance of a sonar report
DecodedDistance(hi, lo) ==
    _sonar_distance_report([Self EXCEPT !.sonar_callbacks[1] = "cb1", !.ev = <<>>],
                           <<1, hi, lo>>).ev[1].bytes[3]

\* C33: for a value of 0..65535 analog_write writes the frame 4,
\* ANALOG_WRITE, pin and two bytes, set_pin_mode_analog_input the frame 6,
\* SET_PIN_MODE, pin, AT_ANALOG, two bytes, 1; the two bytes are the value
\* most significant byte first: the decoding of the analog and of the
\* distance reports, applied to them in that order, gives the value again.
C33_WordRoundTrip ==
    /\ (op.name = "analog_write" /\ op.value <= 65535) =>
          /\ exc = ""
          /\ Len(LastWrite(ev)) = 5
          /\ SubSeq(LastWrite(ev), 1, 3) = <<4, ANALOG_WRITE, op.pin>>
          /\ LastWrite(ev)[4] = op.value \div 256
          /\ DecodedAnalog(LastWrite(ev)[4], LastWrite(ev)[5]) = op.value
          /\ DecodedDistance(LastWrite(ev)[4], LastWrite(ev)[5]) = op.value
    /\ (op.name = "set_pin_mode_analog_input" /\ op.value <= 65535) =>
          /\ exc = ""
          /\ Len(LastWrite(ev)) = 7
          /\ SubSeq(LastWrite(ev), 1, 4) = <<6, SET_PIN_MODE, op.pin, AT_ANALOG>>
          /\ LastWrite(ev)[7] = 1
          /\ DecodedAnalog(LastWrite(ev)[5], LastWrite(ev)[6]) = op.value

\* the value 0x1280 was written as the bytes 0x12, 0x80
C33_Witness ==
    /\ op.name = "analog_write"
    /\ op.value = 4736
    /\ LastWrite(ev) = <<4, ANALOG_WRITE, 1, 18, 128>>

(* ------------------------------ loop back ------------------------------- *)

\* C34: a loop-back report is handed to the loop-back callback, once and
\* with the echoed byte as its data, when loop_back stored a callback; when
\* there is none the report awaits no callback and raises nothing, and the
\* dispatcher goes on to its sleep and the next frame.
C34_LoopBackReport ==
    (HandlerRan /\ LastDispatched.report = LOOP_COMMAND) =>
        /\ task_exc = ""
        /\ IF loop_back_callback # None
           THEN /\ Cardinality(CallbackEvents) = 1
                /\ \A i \in CallbackEvents :
                       /\ ev[i].cb = loop_back_callback
                       /\ ev[i].bytes = LastDispatched.data
                /\ pc = "callback"
           ELSE /\ CallbackEvents = {}
                /\ pc = "sleep"

\* the echo of the character 65 went to the callback loop_back stored
C34_Witness ==
    /\ HandlerRan
    /\ LastDispatched.report = LOOP_COMMAND
    /\ loop_back_callback = "cb1"
    /\ \E i \in CallbackEvents : ev[i].bytes = <<65>>

\* the echo arrived at a client without a loop-back callback
C34_WitnessNone ==
    /\ HandlerRan
    /\ LastDispatched.report = LOOP_COMMAND
    /\ loop_back_callback = None
    /\ pc = "sleep"

(* ------------------- the order of store and command --------------------- *)

\* no registering call was made yet: the client was started and at most
\* its channels were activated
BeforeRegistering == op.name \in {"start_aio", "set_pin_mode_i2c"}

\* every operation that registers a callback, one of them in a behaviour
NextRegistering ==
    \/ StartAio
    \/ BeforeRegistering /\ SetPinModeI2c
    \/ BeforeRegistering /\ ReRegisterDigital
    \/ BeforeRegistering /\ SetPinModeAnalogInput
    \/ BeforeRegistering /\ SetPinModeDhtSensor
    \/ BeforeRegistering /\ ReRegisterSonar
    \/ BeforeRegistering /\ I2cReadChannel
    \/ BeforeRegistering /\ LoopBack

SpecRegistering == Init /\ [][NextRegistering]_vars

\* the frame is that of a command the device answers with reports for a
\* callback
RegisteringFrame(w) ==
    \/ w[2] = SET_PIN_MODE /\ w[4] \in {AT_INPUT, AT_INPUT_PULLUP, AT_ANALOG}
    \/ w[2] \in {DHT_NEW, SONAR_NEW, I2C_READ, LOOP_COMMAND}

\* the event of the store that belongs to the frame
StoreEvent(w) ==
    CASE w[2] = SET_PIN_MODE ->
             IF w[4] = AT_ANALOG THEN "register analog" ELSE "register digital"
      [] w[2] = DHT_NEW -> "register dht"
      [] w[2] = SONAR_NEW -> "register sonar"
      [] w[2] = I2C_READ -> "register i2c"
      [] OTHER -> "register loop_back"

\* the registry holds the callback of the call
HoldsCallback ==
    /\ op.callback # None
    /\ IF op.name = "loop_back" THEN loop_back_callback = op.callback
       ELSE Registered(op.name, op.pin) = op.callback

InFrame == pc \in {"read_length", "read_packet", "dispatch"}

\* C36: the wait for a length byte is entered only from the test of the
\* shutdown flag at the top of the iteration and only when the flag is not
\* set; with the flag set a dispatcher that is not in the middle of a frame
\* never reads or dispatches again, and the dispatch of the frame that was
\* in progress ends the iteration: at most that one report reaches a
\* callback after the flag was set.
C36_NoNewReadAfterFlag ==
    [][/\ (pc' = "read_length" /\ pc # "read_length") =>
              (pc = "top" /\ ~shutdown_flag)
       /\ (shutdown_flag /\ ~InFrame) => ~InFrame'
       /\ (pc = "dispatch" /\ pc' # "dispatch") =>
              pc' \in {"callback", "sleep", "stopped"}]_vars

\* the frame that was being read when shutdown set the flag went to its
\* callback
C36_Witness ==
    /\ HandlerRan
    /\ shutdown_flag
    /\ pc = "callback"
    /\ CallbackEvents # {}

(* ----------------- errors without shutdown_on_exception ----------------- *)

\* the three fatal reports and a DHT report for pin 3
FatalFrames ==
    {<<2, SERVO_UNAVAILABLE, 1>>, <<3, I2C_TOO_FEW_BYTES_RCVD, 0, 8>>,
     <<3, I2C_TOO_MANY_BYTES_RCVD, 0, 8>>,
     <<11, DHT_REPORT, 0, 3>> \o Humidity \o Temperature}

FatalSend == DeviceSends(FatalFrames)

\* a DHT sensor registered on pin 3 again and again, up to the limit
SetPinModeDhtAgain ==
    /\ phase = "started"
    /\ Call(Op("set_pin_mode_dht", 3, "cb1", 0), set_pin_mode_dht(Self, 3, "cb1"))

\* the calls are made while the task is idle: before the device has sent
\* a report or after the task has ended
TaskIdle == sent = <<>> \/ pc = "stopped"

\* calls that are rejected and fatal reports
NextErrors ==
    \/ StartAio
    \/ TaskIdle /\ CallWithoutCallback
    \/ TaskIdle /\ I2cReadChannel
    \/ TaskIdle /\ SetPinModeDhtAgain
    \/ TaskIdle /\ SetAnalogScanInterval
    \/ FatalSend
    \/ Dispatcher

SpecErrors == Init /\ [][NextErrors]_vars

\* the last step was a call that was rejected
RejectedCall == exc \in ArgumentErrors

\* the last step was the dispatch of a fatal report
FatalReportRaised ==
    HandlerRan /\ LastDispatched.report \in FatalReports
        /\ task_exc \in FatalErrors

\* C37: on a client with shutdown_on_exception = False a rejected call
\* (missing callback, inactive channel, device limit, scan interval out of
\* range) and a fatal report (servo unavailable, i2c too few or too many
\* bytes) raise their error and nothing else happens: no byte is written,
\* shutdown does not run, the shutdown flag, the transports and every other
\* attribute of the client stay as they were.
C37_ErrorsWithoutShutdown ==
    [][(~shutdown_on_exception /\ (RejectedCall' \/ FatalReportRaised')) =>
          /\ Writes(ev') = {}
          /\ ~ShutdownRan'
          /\ shutdown_flag' = shutdown_flag
          /\ clientFixed' = clientFixed
          /\ FatalReportRaised' => pc' = "stopped"]_vars

\* a registration was rejected at the device limit after a fatal report had
\* ended the task, and the client is not shut down
C37_Witness ==
    /\ ~shutdown_on_exception
    /\ exc = "RuntimeError: device limit"
    /\ task_exc \in FatalErrors
    /\ LastDispatched.report \in FatalReports
    /\ ~shutdown_flag
    /\ ReadTransportOpen

(* ------------------------ slots and registered pins --------------------- *)

\* the keys of a registry: the pins that hold a callback
Keys(registry) == {pin \in DOMAIN registry : registry[pin] # None}

\* the counters are at least the numbers of registered pins
CountsCoverKeys ==
    /\ dht_count >= Cardinality(Keys(dht_callbacks))
    /\ sonar_count >= Cardinality(Keys(sonar_callbacks))

\* C38: dht_count and sonar_count are never below the number of pins in
\* dht_callbacks and sonar_callbacks, and a registration (with a callback) of
\* a pin that is registered already takes one more slot: below the limit the
\* counter goes up by one while the pins of the registry stay the same, at
\* the limit the call is rejected and counter and registry stay as they were.
C38_ReRegistrationTakesSlot ==
    /\ CountsCoverKeys
    /\ [][/\ CountsCoverKeys'
          /\ (op'.name = "set_pin_mode_dht" /\ op'.callback # None
                  /\ op'.pin \in Keys(dht_callbacks)) =>
                 /\ Keys(dht_callbacks') = Keys(dht_callbacks)
                 /\ IF dht_count < MAX_DHTS - 1
                    THEN dht_count' = dht_count + 1
                    ELSE /\ exc' = "RuntimeError: device limit"
                         /\ dht_count' = dht_count
                         /\ dht_callbacks' = dht_callbacks
          /\ (op'.name = "set_pin_mode_sonar" /\ op'.callback # None
                  /\ op'.pin \in Keys(sonar_callbacks)) =>
                 /\ Keys(sonar_callbacks') = Keys(sonar_callbacks)
                 /\ IF sonar_count < MAX_SONARS - 1
                    THEN sonar_count' = sonar_count + 1
                    ELSE /\ exc' = "RuntimeError: device limit"
                         /\ sonar_count' = sonar_count
                         /\ sonar_callbacks' = sonar_callbacks]_vars

\* the one sonar that is registered was registered again at the limit and
\* the call was rejected
C38_Witness ==
    /\ RejectedSonar
    /\ op.pin \in Keys(sonar_callbacks)
    /\ Cardinality(Keys(sonar_callbacks)) = 1
    /\ sonar_count = MAX_SONARS - 1

(* ------------------------ the slots of the channels --------------------- *)

\* the slot of a channel
Slot(i2c_port) == IF i2c_port = 0 THEN i2c_callback ELSE i2c_callback2

\* reads on both channels: the first read of a channel brings cb1, a later
\* one cb1 or cb2
I2cReadAgain ==
    /\ phase = "started"
    /\ \E i2c_port \in {0, 1} : \E callback \in Handlers(Slot(i2c_port)) :
          Call(Op("i2c_read", i2c_port, callback, 0),
               i2c_read(Self, 8, 0, 2, callback, i2c_port))

NextSlots ==
    \/ StartAio
    \/ SetPinModeI2c
    \/ I2cReadAgain
    \/ I2cReadSend
    \/ Dispatcher

SpecSlots == Init /\ [][NextSlots]_vars

\* the last step was a read that passed the tests of the channel
ReadAccepted == op.name = "i2c_read" /\ exc # NotActive

\* the last step dispatched a read report
ReadReportDispatched == HandlerRan /\ LastDispatched.report = I2C_READ_REPORT

\* C39: a channel has one slot. A read that passes the tests puts its
\* callback into the slot of its channel and leaves the slot of the other
\* channel alone, no other step changes a slot, and a read report is
\* delivered to the callback in the slot of its channel: to the callback of
\* the most recent read on the channel, also when the report answers an
\* earlier read that brought another callback.
C39_SlotPerChannel ==
    [][/\ IF ReadAccepted'
          THEN IF op'.pin = 0
               THEN i2c_callback' = op'.callback /\ i2c_callback2' = i2c_callback2
               ELSE i2c_callback2' = op'.callback /\ i2c_callback' = i2c_callback
          ELSE i2c_callback' = i2c_callback /\ i2c_callback2' = i2c_callback2
       /\ (ReadReportDispatched' /\ Slot(LastDispatched'.data[1]) # None) =>
             /\ Len(ev') = 1
             /\ ev'[1].e = "callback"
             /\ ev'[1].cb = Slot(LastDispatched'.data[1])
             /\ ev'[1].bytes = <<I2C_READ_REPORT>> \o LastDispatched'.data]_vars

\* two reads on channel 0 brought cb1 and then cb2, one report for the
\* channel has come and it went to cb2, while the slot of channel 1 still
\* holds cb1
C39_Witness ==
    /\ ReadReportDispatched
    /\ Len(sent) = 1 /\ Len(dispatched) = 1
    /\ LastDispatched.data[1] = 0
    /\ Len(ev) = 1 /\ ev[1].e = "callback" /\ ev[1].cb = "cb2"
    /\ i2c_callback = "cb2"
    /\ i2c_callback2 = "cb1"

====
